---- MODULE Spec2Model ----
(***************************************************************************)
(* Task intelligence and autonomous remediation engine:                    *)
(*   services/autonomous_agent.py  (AutonomousAgent, GitHubBoardSync)      *)
(*   services/ai_task_engine.py    (AITaskEngine, BuildTracker)            *)
(*   routes/projects.py, routes/ai_projects.py (task board handlers)       *)
(* Strings are TLA+ strings; dictionaries are functions whose DOMAIN is    *)
(* the set of keys that are present; Python None is the record None.       *)
(***************************************************************************)
EXTENDS Integers, Sequences, FiniteSets, TLC

VARIABLES
    call,       \* the request being served: [op |-> ..., arguments]
    pc,         \* position of the call: "start", a workflow step, "done"
    result,     \* what the call returned (or the exception it raised)
    wf,         \* execute_autonomous_workflow's local workflow_result
    db_tasks,   \* committed rows of table tasks: id -> row
    db_projects,\* committed rows of table projects: id -> row
    db_users,   \* rows of table users, in query order
    db_time_entries, \* committed rows of table time_entries
    session,    \* db.session: rows inserted in the open transaction
    next_id,    \* source of fresh primary keys (uuid4 in the code)
    fk_enforced,\* whether the database enforces FOREIGN KEY constraints
    served      \* number of board requests served so far

vars == <<call, pc, result, wf, db_tasks, db_projects, db_users, db_time_entries,
          session, next_id, fk_enforced, served>>

----------------------------------------------------------------------------
(* Python values *)

None == [some |-> FALSE]
Some(v) == [some |-> TRUE, v |-> v]

\* dict.get(key, default)
Get(d, key, default) == IF key \in DOMAIN d THEN d[key] ELSE default

\* dict.get(key): None when the key is absent
GetOpt(d, key) == IF key \in DOMAIN d THEN Some(d[key]) ELSE None

Max(a, b) == IF a > b THEN a ELSE b
Min(a, b) == IF a < b THEN a ELSE b

\* the cased ASCII letters and their counterparts
LowerOf ==
    "A" :> "a" @@ "B" :> "b" @@ "C" :> "c" @@ "D" :> "d" @@ "E" :> "e" @@ "F" :> "f" @@ "G" :> "g" @@
    "H" :> "h" @@ "I" :> "i" @@ "J" :> "j" @@ "K" :> "k" @@ "L" :> "l" @@ "M" :> "m" @@ "N" :> "n" @@
    "O" :> "o" @@ "P" :> "p" @@ "Q" :> "q" @@ "R" :> "r" @@ "S" :> "s" @@ "T" :> "t" @@ "U" :> "u" @@
    "V" :> "v" @@ "W" :> "w" @@ "X" :> "x" @@ "Y" :> "y" @@ "Z" :> "z"
UpperOf ==
    "a" :> "A" @@ "b" :> "B" @@ "c" :> "C" @@ "d" :> "D" @@ "e" :> "E" @@ "f" :> "F" @@ "g" :> "G" @@
    "h" :> "H" @@ "i" :> "I" @@ "j" :> "J" @@ "k" :> "K" @@ "l" :> "L" @@ "m" :> "M" @@ "n" :> "N" @@
    "o" :> "O" @@ "p" :> "P" @@ "q" :> "Q" @@ "r" :> "R" @@ "s" :> "S" @@ "t" :> "T" @@ "u" :> "U" @@
    "v" :> "V" @@ "w" :> "W" @@ "x" :> "X" @@ "y" :> "Y" @@ "z" :> "Z"
DigitChars == {"0", "1", "2", "3", "4", "5", "6", "7", "8", "9"}

CharAt(s, i) == SubSeq(s, i, i)
IsDigit(c) == c \in DigitChars
IsLower(c) == c \in DOMAIN UpperOf
IsUpper(c) == c \in DOMAIN LowerOf

LowerChar(c) == IF IsUpper(c) THEN LowerOf[c] ELSE c
UpperChar(c) == IF IsLower(c) THEN UpperOf[c] ELSE c

\* str.lower()
RECURSIVE lower(_)
lower(s) == IF s = "" THEN "" ELSE LowerChar(CharAt(s, 1)) \o lower(SubSeq(s, 2, Len(s)))

\* str.lower() of a long text, taken 32 characters at a time
RECURSIVE lower_long(_)
lower_long(s) ==
    IF Len(s) <= 32 THEN lower(s)
    ELSE lower(SubSeq(s, 1, 32)) \o lower_long(SubSeq(s, 33, Len(s)))

\* needle in haystack
Contains(needle, haystack) ==
    \E i \in 1..(Len(haystack) - Len(needle) + 1) :
        SubSeq(haystack, i, i + Len(needle) - 1) = needle

\* any(word in content for word in words)
AnyIn(words, content) == \E i \in 1..Len(words) : Contains(words[i], content)

\* str.title(): a cased character is upper-cased after an uncased one and
\* lower-cased after a cased one
RECURSIVE title_from(_, _)
title_from(s, prev_cased) ==
    IF s = "" THEN ""
    ELSE LET c == CharAt(s, 1)
             cased == IsLower(c) \/ IsUpper(c)
         IN (IF prev_cased THEN LowerChar(c) ELSE UpperChar(c))
                \o title_from(SubSeq(s, 2, Len(s)), cased)
str_title(s) == title_from(s, FALSE)

\* re.sub(r"[^a-z0-9]+", "-", s): each maximal run of other characters
\* becomes one "-"
RECURSIVE sub_non_alnum(_, _)
sub_non_alnum(s, in_run) ==
    IF s = "" THEN ""
    ELSE LET c == CharAt(s, 1)
             keep == IsLower(c) \/ IsDigit(c)
         IN (IF keep THEN c ELSE IF in_run THEN "" ELSE "-")
                \o sub_non_alnum(SubSeq(s, 2, Len(s)), ~keep)

\* s[:n]
Prefix(s, n) == SubSeq(s, 1, IF Len(s) < n THEN Len(s) ELSE n)

\* One alternative of a detection regex: a literal, optionally followed by
\* \d+.  re.search(..., re.IGNORECASE) compares without regard to case.
Lit(s) == [lit |-> s, digits |-> FALSE]
LitDigits(s) == [lit |-> s, digits |-> TRUE]

\* c is the content with case folded
AltMatches(alt, c) ==
    LET l == lower(alt.lit)
    IN \E i \in 1..(Len(c) - Len(l) + 1) :
          /\ SubSeq(c, i, i + Len(l) - 1) = l
          /\ alt.digits => (i + Len(l) <= Len(c) /\ IsDigit(CharAt(c, i + Len(l))))

re_search(alts, content) ==
    LET c == lower(content)
    IN \E i \in 1..Len(alts) : AltMatches(alts[i], c)

----------------------------------------------------------------------------
(* services/autonomous_agent.py : AutonomousAgent *)

FIX_PATTERNS == <<
    [fix_type |-> "syntax_error",
     detection |-> <<Lit("SyntaxError"), Lit("IndentationError"), Lit("TabError")>>,
     severity |-> "high", auto_fixable |-> TRUE],
    [fix_type |-> "import_error",
     detection |-> <<Lit("ImportError"), Lit("ModuleNotFoundError")>>,
     severity |-> "high", auto_fixable |-> TRUE],
    [fix_type |-> "type_error",
     detection |-> <<Lit("TypeError"), Lit("AttributeError")>>,
     severity |-> "medium", auto_fixable |-> TRUE],
    [fix_type |-> "security_vulnerability",
     detection |-> <<Lit("SQL injection"), Lit("XSS"), Lit("CSRF"), LitDigits("CVE-")>>,
     severity |-> "critical", auto_fixable |-> TRUE],
    [fix_type |-> "deprecation",
     detection |-> <<Lit("DeprecationWarning"), Lit("deprecated")>>,
     severity |-> "low", auto_fixable |-> TRUE] >>

AUTOMATION_TRIGGERS == [
    l \in {"auto-fix", "auto-merge", "auto-document", "auto-test", "quick-fix", "enhancement"} |->
      CASE l = "auto-fix" -> "Automatically fix the issue if possible"
        [] l = "auto-merge" -> "Auto-merge PR when checks pass"
        [] l = "auto-document" -> "Generate documentation automatically"
        [] l = "auto-test" -> "Generate test cases automatically"
        [] l = "quick-fix" -> "Apply quick fix and create PR"
        [] l = "enhancement" -> "Auto-analyze for implementation approach" ]

\* variant: a label without a name counts as "auto-fix"
label_names_default_auto_fix(data) ==
    LET ls == Get(data, "labels", <<>>)
    IN [i \in 1..Len(ls) |-> Get(ls[i], "name", "auto-fix")]

\* [l.get("name", "") for l in data.get("labels", [])]
label_names(data) ==
    LET ls == Get(data, "labels", <<>>)
    IN [i \in 1..Len(ls) |-> Get(ls[i], "name", "")]

\* variant: the loop without its break, so the last matching entry is kept
first_pattern_no_break(content) ==
    IF \E i \in 1..Len(FIX_PATTERNS) : re_search(FIX_PATTERNS[i].detection, content)
    THEN CHOOSE i \in 1..Len(FIX_PATTERNS) :
            /\ re_search(FIX_PATTERNS[i].detection, content)
            /\ \A j \in (i + 1)..Len(FIX_PATTERNS) :
                  ~re_search(FIX_PATTERNS[j].detection, content)
    ELSE 0

\* the first FIX_PATTERNS entry whose regex matches, 0 if none (the loop
\* breaks at the first match)
first_pattern(content) ==
    IF \E i \in 1..Len(FIX_PATTERNS) : re_search(FIX_PATTERNS[i].detection, content)
    THEN CHOOSE i \in 1..Len(FIX_PATTERNS) :
            /\ re_search(FIX_PATTERNS[i].detection, content)
            /\ \A j \in 1..(i - 1) : ~re_search(FIX_PATTERNS[j].detection, content)
    ELSE 0

\* variant: the label itself is appended instead of its action text
RECURSIVE trigger_actions_label_text(_)
trigger_actions_label_text(labels) ==
    IF labels = <<>> THEN <<>>
    ELSE (IF Head(labels) \in DOMAIN AUTOMATION_TRIGGERS THEN <<Head(labels)>> ELSE <<>>)
            \o trigger_actions_label_text(Tail(labels))

\* the actions appended for the trigger labels, in label order
RECURSIVE trigger_actions(_)
trigger_actions(labels) ==
    IF labels = <<>> THEN <<>>
    ELSE (IF Head(labels) \in DOMAIN AUTOMATION_TRIGGERS
          THEN <<AUTOMATION_TRIGGERS[Head(labels)]>> ELSE <<>>)
            \o trigger_actions(Tail(labels))

analyze_issue_for_automation(issue_data) ==
    LET title == Get(issue_data, "title", "")
        body == Get(issue_data, "body", "")
        labels == label_names(issue_data)
        content == lower(title \o " " \o body)
        p == first_pattern(content)
        triggered == \E i \in 1..Len(labels) : labels[i] \in DOMAIN AUTOMATION_TRIGGERS
    IN [issue_id |-> GetOpt(issue_data, "number"),
        title |-> title,
        automatable |-> IF triggered THEN TRUE
                        ELSE IF p > 0 THEN FIX_PATTERNS[p].auto_fixable ELSE FALSE,
        auto_fix_type |-> IF p > 0 THEN Some(FIX_PATTERNS[p].fix_type) ELSE None,
        suggested_actions |->
            trigger_actions(labels)
            \o (IF AnyIn(<<"fix", "bug", "error", "broken", "not working">>, content)
                THEN <<"Generate fix and create PR">> ELSE <<>>)
            \o (IF AnyIn(<<"feature", "add", "implement", "create">>, content)
                THEN <<"Generate implementation plan", "Create task breakdown">> ELSE <<>>)
            \o (IF AnyIn(<<"document", "docs", "readme", "guide">>, content)
                THEN <<"Auto-generate documentation">> ELSE <<>>)
            \o (IF AnyIn(<<"test", "testing", "coverage">>, content)
                THEN <<"Generate test cases">> ELSE <<>>),
        priority |-> IF p > 0 THEN FIX_PATTERNS[p].severity ELSE "medium",
        estimated_effort |->
            IF Len(body) > 500 \/ Contains("complex", content) \/ Contains("architecture", content)
            THEN "high"
            ELSE IF Len(body) < 100 \/ Contains("simple", content) \/ Contains("typo", content)
            THEN "low"
            ELSE "medium"]

\* confidence is kept in hundredths: 90 is 0.9
fix(fix_type, action, description, command, explanation, confidence) ==
    [fixable |-> TRUE, fix_type |-> fix_type,
     code_changes |-> <<[action |-> action, description |-> description, command |-> command]>>,
     explanation |-> explanation, confidence |-> confidence]

\* variant: the typo check placed before the deprecation check
generate_fix_code_typo_first(issue_description, error_context) ==
    LET content == lower(issue_description \o " " \o error_context)
    IN IF Contains("syntaxerror", content) \/ Contains("indentation", content)
       THEN fix("syntax", "fix_indentation", "Fix indentation issues using autopep8",
                "autopep8 --in-place --aggressive", "Auto-fix indentation and syntax issues", 90)
       ELSE IF Contains("importerror", content) \/ Contains("modulenotfound", content)
       THEN fix("import", "add_import", "Add missing import statement",
                "Auto-detect and add import", "Add missing import statements", 85)
       ELSE IF AnyIn(<<"sql injection", "xss", "csrf", "vulnerability">>, content)
       THEN fix("security", "apply_security_fix", "Apply security best practices",
                "Apply parameterized queries, escape output",
                "Apply security fixes and sanitization", 80)
       ELSE IF Contains("typo", content) \/ Contains("spelling", content)
       THEN fix("typo", "fix_typo", "Correct spelling errors",
                "Apply spell checker", "Fix typos and spelling errors", 95)
       ELSE IF Contains("deprecat", content)
       THEN fix("deprecation", "update_deprecated", "Update to current API",
                "Replace deprecated calls", "Update deprecated API calls", 75)
       ELSE [fixable |-> FALSE, fix_type |-> "manual", code_changes |-> <<>>,
             explanation |-> "", confidence |-> 0]

\* variant: the syntax check accepts every text that names an error
generate_fix_code_any_error(issue_description, error_context) ==
    LET content == lower(issue_description \o " " \o error_context)
    IN IF Contains("error", content) \/ Contains("indentation", content)
       THEN fix("syntax", "fix_indentation", "Fix indentation issues using autopep8",
                "autopep8 --in-place --aggressive", "Auto-fix indentation and syntax issues", 90)
       ELSE IF Contains("importerror", content) \/ Contains("modulenotfound", content)
       THEN fix("import", "add_import", "Add missing import statement",
                "Auto-detect and add import", "Add missing import statements", 85)
       ELSE IF AnyIn(<<"sql injection", "xss", "csrf", "vulnerability">>, content)
       THEN fix("security", "apply_security_fix", "Apply security best practices",
                "Apply parameterized queries, escape output",
                "Apply security fixes and sanitization", 80)
       ELSE IF Contains("deprecat", content)
       THEN fix("deprecation", "update_deprecated", "Update to current API",
                "Replace deprecated calls", "Update deprecated API calls", 75)
       ELSE IF Contains("typo", content) \/ Contains("spelling", content)
       THEN fix("typo", "fix_typo", "Correct spelling errors",
                "Apply spell checker", "Fix typos and spelling errors", 95)
       ELSE [fixable |-> FALSE, fix_type |-> "manual", code_changes |-> <<>>,
             explanation |-> "", confidence |-> 0]

generate_fix_code(issue_description, error_context) ==
    LET content == lower(issue_description \o " " \o error_context)
    IN IF Contains("syntaxerror", content) \/ Contains("indentation", content)
       THEN fix("syntax", "fix_indentation", "Fix indentation issues using autopep8",
                "autopep8 --in-place --aggressive", "Auto-fix indentation and syntax issues", 90)
       ELSE IF Contains("importerror", content) \/ Contains("modulenotfound", content)
       THEN fix("import", "add_import", "Add missing import statement",
                "Auto-detect and add import", "Add missing import statements", 85)
       ELSE IF AnyIn(<<"sql injection", "xss", "csrf", "vulnerability">>, content)
       THEN fix("security", "apply_security_fix", "Apply security best practices",
                "Apply parameterized queries, escape output",
                "Apply security fixes and sanitization", 80)
       ELSE IF Contains("deprecat", content)
       THEN fix("deprecation", "update_deprecated", "Update to current API",
                "Replace deprecated calls", "Update deprecated API calls", 75)
       ELSE IF Contains("typo", content) \/ Contains("spelling", content)
       THEN fix("typo", "fix_typo", "Correct spelling errors",
                "Apply spell checker", "Fix typos and spelling errors", 95)
       ELSE [fixable |-> FALSE, fix_type |-> "manual", code_changes |-> <<>>,
             explanation |-> "", confidence |-> 0]

NoResult == [kind |-> "none"]
Returned(v) == [kind |-> "return", value |-> v]
Raised(e) == [kind |-> "raise", exception |-> e]

\* f"{x}" of an optional value
fmt(x, to_str(_)) == IF x.some THEN to_str(x.v) ELSE "None"
Ident(s) == s

\* chr(10).join(f"- {change.get('description', '')}" for change in changes)
RECURSIVE change_lines(_)
change_lines(changes) ==
    IF changes = <<>> THEN ""
    ELSE "- " \o Get(Head(changes), "description", "")
         \o (IF Len(changes) > 1 THEN "\n" ELSE "") \o change_lines(Tail(changes))

\* variant: the auto-merge conditions joined with "or"
create_pr_strategy_either(task_data, fix_data) ==
    LET should_create_pr == Get(fix_data, "fixable", FALSE)
        task_title == Get(task_data, "title", Some("fix"))
        fix_type == Get(fix_data, "fix_type", "issue")
        confidence == Get(fix_data, "confidence", 0)
    IN IF ~should_create_pr
       THEN Returned([should_create_pr |-> FALSE, branch_name |-> "", pr_title |-> "",
                      pr_body |-> "", auto_merge |-> FALSE, reviewers |-> <<>>])
       ELSE IF ~task_title.some
       THEN Raised("AttributeError")
       ELSE Returned(
            [should_create_pr |-> TRUE,
             branch_name |-> "auto-fix/" \o Prefix(sub_non_alnum(lower(task_title.v), FALSE), 50),
             pr_title |-> "Auto-fix: " \o str_title(fix_type) \o " - " \o task_title.v,
             pr_body |-> "## Automated Fix\n\n**Issue**: #"
                         \o fmt(Get(task_data, "issue_number", Some("N/A")), ToString)
                         \o "\n**Fix Type**: " \o fix_type
                         \o "\n**Confidence**: " \o ToString(confidence) \o "%"
                         \o "\n\n### Changes Applied\n"
                         \o change_lines(Get(fix_data, "code_changes", <<>>))
                         \o "\n\n### Explanation\n"
                         \o Get(fix_data, "explanation", "Auto-generated fix")
                         \o "\n\n### Testing\n- Syntax validation passed\n"
                         \o "- Linting checks applied\n- Manual testing recommended\n\n---\n"
                         \o "*This PR was automatically generated by the Autonomous Agent*\n"
                         \o "*Review carefully before merging*\n",
             auto_merge |-> confidence >= 90 \/ fix_type \in {"typo", "syntax"},
             reviewers |-> <<>>])

\* task_data values are optional (the workflow passes issue_data.get("title"),
\* which is None for a payload without a title); None.lower() raises
\* AttributeError.  The emoji that starts pr_title and the section headings
\* is left out of the strings.
create_pr_strategy(task_data, fix_data) ==
    LET should_create_pr == Get(fix_data, "fixable", FALSE)
        task_title == Get(task_data, "title", Some("fix"))
        fix_type == Get(fix_data, "fix_type", "issue")
        confidence == Get(fix_data, "confidence", 0)
    IN IF ~should_create_pr
       THEN Returned([should_create_pr |-> FALSE, branch_name |-> "", pr_title |-> "",
                      pr_body |-> "", auto_merge |-> FALSE, reviewers |-> <<>>])
       ELSE IF ~task_title.some
       THEN Raised("AttributeError")
       ELSE Returned(
            [should_create_pr |-> TRUE,
             branch_name |-> "auto-fix/" \o Prefix(sub_non_alnum(lower(task_title.v), FALSE), 50),
             pr_title |-> "Auto-fix: " \o str_title(fix_type) \o " - " \o task_title.v,
             pr_body |-> "## Automated Fix\n\n**Issue**: #"
                         \o fmt(Get(task_data, "issue_number", Some("N/A")), ToString)
                         \o "\n**Fix Type**: " \o fix_type
                         \o "\n**Confidence**: " \o ToString(confidence) \o "%"
                         \o "\n\n### Changes Applied\n"
                         \o change_lines(Get(fix_data, "code_changes", <<>>))
                         \o "\n\n### Explanation\n"
                         \o Get(fix_data, "explanation", "Auto-generated fix")
                         \o "\n\n### Testing\n- Syntax validation passed\n"
                         \o "- Linting checks applied\n- Manual testing recommended\n\n---\n"
                         \o "*This PR was automatically generated by the Autonomous Agent*\n"
                         \o "*Review carefully before merging*\n",
             auto_merge |-> confidence >= 90 /\ fix_type \in {"typo", "syntax"},
             reviewers |-> <<>>])

\* variant: the label test joined with "or", so both labels are demanded
should_auto_merge_pr_both_labels(pr_data, checks_status) ==
    LET labels == label_names(pr_data)
        has(l) == \E i \in 1..Len(labels) : labels[i] = l
    IN IF ~has("auto-merge") \/ ~has("safe-to-merge") THEN FALSE
       ELSE IF checks_status # "success" THEN FALSE
       ELSE TRUE

should_auto_merge_pr(pr_data, checks_status) ==
    LET labels == label_names(pr_data)
        has(l) == \E i \in 1..Len(labels) : labels[i] = l
    IN IF ~has("auto-merge") /\ ~has("safe-to-merge") THEN FALSE
       ELSE IF checks_status # "success" THEN FALSE
       ELSE TRUE

----------------------------------------------------------------------------
(* services/ai_task_engine.py : AITaskEngine *)

SKILL_KEYWORDS == <<
    [skill |-> "backend",
     keywords |-> <<"api", "backend", "server", "database", "sql", "flask", "python">>],
    [skill |-> "frontend",
     keywords |-> <<"ui", "frontend", "html", "css", "javascript", "react", "vue">>],
    [skill |-> "devops",
     keywords |-> <<"ci/cd", "deploy", "docker", "kubernetes", "infrastructure">>],
    [skill |-> "security",
     keywords |-> <<"security", "vulnerability", "authentication", "authorization">>],
    [skill |-> "database",
     keywords |-> <<"database", "sql", "migration", "schema", "postgres", "sqlite">>],
    [skill |-> "testing",
     keywords |-> <<"test", "testing", "qa", "quality", "coverage">>],
    [skill |-> "documentation",
     keywords |-> <<"docs", "documentation", "readme", "guide">>] >>

COMPLEXITY_HIGH == <<"architecture", "refactor", "migration", "integration", "critical">>
COMPLEXITY_MEDIUM == <<"feature", "enhancement", "improvement", "update">>
COMPLEXITY_LOW == <<"fix", "bug", "typo", "documentation", "comment">>

\* len(content.split()): the number of places where a word begins
split_len(content) ==
    Cardinality({i \in 1..Len(content) :
                    /\ CharAt(content, i) # " "
                    /\ (i = 1 \/ CharAt(content, i - 1) = " ")})

\* variant: the high and the low keyword lists taken for one another
analyze_task_complexity_lists_swapped(title, description) ==
    LET content == lower_long(title \o " " \o description)
        words == split_len(content)
        s1 == IF AnyIn(COMPLEXITY_LOW, content) THEN Max(5, 8) ELSE 5
        s2 == IF AnyIn(COMPLEXITY_MEDIUM, content) THEN Max(s1, 5) ELSE s1
        s3 == IF AnyIn(COMPLEXITY_HIGH, content) THEN Min(s2, 3) ELSE s2
        complexity_score == IF words > 100 THEN s3 + 1 ELSE IF words < 20 THEN s3 - 1 ELSE s3
        priority == IF complexity_score >= 8 THEN "urgent"
                    ELSE IF complexity_score >= 6 THEN "high"
                    ELSE IF complexity_score >= 4 THEN "medium" ELSE "low"
    IN [complexity_score |-> complexity_score,
        suggested_priority |-> priority,
        estimated_hours |-> CASE priority = "urgent" -> 40 [] priority = "high" -> 20
                              [] priority = "medium" -> 8 [] OTHER -> 4,
        confidence |-> 75,
        reasoning |-> "Analyzed " \o ToString(words) \o " words with complexity indicators"]

\* variant: the low keywords are looked for first, the high keywords last
analyze_task_complexity_low_first(title, description) ==
    LET content == lower_long(title \o " " \o description)
        words == split_len(content)
        s1 == IF AnyIn(COMPLEXITY_LOW, content) THEN Min(5, 3) ELSE 5
        s2 == IF AnyIn(COMPLEXITY_MEDIUM, content) THEN Max(s1, 5) ELSE s1
        s3 == IF AnyIn(COMPLEXITY_HIGH, content) THEN Max(s2, 8) ELSE s2
        complexity_score == IF words > 100 THEN s3 + 1 ELSE IF words < 20 THEN s3 - 1 ELSE s3
        priority == IF complexity_score >= 8 THEN "urgent"
                    ELSE IF complexity_score >= 6 THEN "high"
                    ELSE IF complexity_score >= 4 THEN "medium" ELSE "low"
    IN [complexity_score |-> complexity_score,
        suggested_priority |-> priority,
        estimated_hours |-> CASE priority = "urgent" -> 40 [] priority = "high" -> 20
                              [] priority = "medium" -> 8 [] OTHER -> 4,
        confidence |-> 75,
        reasoning |-> "Analyzed " \o ToString(words) \o " words with complexity indicators"]

\* the three keyword loops leave 8 (a high keyword), else 5, then at most 3
\* (a low keyword); confidence is kept in hundredths
analyze_task_complexity(title, description) ==
    LET content == lower_long(title \o " " \o description)
        words == split_len(content)
        s1 == IF AnyIn(COMPLEXITY_HIGH, content) THEN Max(5, 8) ELSE 5
        s2 == IF AnyIn(COMPLEXITY_MEDIUM, content) THEN Max(s1, 5) ELSE s1
        s3 == IF AnyIn(COMPLEXITY_LOW, content) THEN Min(s2, 3) ELSE s2
        complexity_score == IF words > 100 THEN s3 + 1 ELSE IF words < 20 THEN s3 - 1 ELSE s3
        priority == IF complexity_score >= 8 THEN "urgent"
                    ELSE IF complexity_score >= 6 THEN "high"
                    ELSE IF complexity_score >= 4 THEN "medium" ELSE "low"
    IN [complexity_score |-> complexity_score,
        suggested_priority |-> priority,
        estimated_hours |-> CASE priority = "urgent" -> 40 [] priority = "high" -> 20
                              [] priority = "medium" -> 8 [] OTHER -> 4,
        confidence |-> 75,
        reasoning |-> "Analyzed " \o ToString(words) \o " words with complexity indicators"]

\* x[:n] of a list
Take(xs, n) == SubSeq(xs, 1, IF Len(xs) < n THEN Len(xs) ELSE n)

\* round(a / b) to an integer, ties to even (Python's round), for b > 0
RoundDiv(a, b) ==
    LET q == a \div b
        r == a % b
    IN IF 2 * r < b THEN q
       ELSE IF 2 * r > b THEN q + 1
       ELSE IF q % 2 = 0 THEN q ELSE q + 1

RECURSIVE skills_from(_, _)
skills_from(i, content) ==
    IF i > Len(SKILL_KEYWORDS) THEN <<>>
    ELSE (IF AnyIn(SKILL_KEYWORDS[i].keywords, content)
          THEN <<SKILL_KEYWORDS[i].skill>> ELSE <<>>) \o skills_from(i + 1, content)

\* list.sort(key=score, reverse=True): stable, so equal scores keep their order
RECURSIVE insert_by_score(_, _)
insert_by_score(x, sorted) ==
    IF sorted = <<>> THEN <<x>>
    ELSE IF Head(sorted).score >= x.score
         THEN <<Head(sorted)>> \o insert_by_score(x, Tail(sorted))
         ELSE <<x>> \o sorted
\* variant: the sort left out, the suggestions stay in query order
sort_by_score_omitted(xs) == xs

RECURSIVE sort_by_score(_)
sort_by_score(xs) ==
    IF xs = <<>> THEN <<>>
    ELSE LET n == Len(xs)
         IN insert_by_score(xs[n], sort_by_score(SubSeq(xs, 1, n - 1)))

\* Scores are kept in hundredths.  The unrounded score is
\* (210*admin + 280*department + 30*skills) / 700.
RECURSIVE scored_users(_, _, _, _)
scored_users(users, required_skills, project_id, projects) ==
    IF users = <<>> THEN <<>>
    ELSE LET user == Head(users)
             admin == IF user.role = "admin" THEN 210 ELSE 0
             dept == IF /\ project_id.some /\ project_id.v # ""
                        /\ project_id.v \in DOMAIN projects
                        /\ projects[project_id.v].department_id.some
                        /\ user.department.some /\ user.department.v # ""
                     THEN 280 ELSE 0
             skill == IF required_skills # <<>> THEN 30 * Len(required_skills) ELSE 0
             score700 == admin + dept + skill
         IN (IF score700 > 0
             THEN <<[user_id |-> user.id, username |-> user.username,
                     score |-> RoundDiv(score700, Len(SKILL_KEYWORDS)),
                     matched_skills |-> Take(required_skills, 2)]>>
             ELSE <<>>)
            \o scored_users(Tail(users), required_skills, project_id, projects)

active_users(users) == SelectSeq(users, LAMBDA u : u.is_active)

suggest_assignee(task_title, task_description, project_id, users, projects) ==
    LET content == lower(task_title \o " " \o task_description)
        required_skills == skills_from(1, content)
        suggestions == sort_by_score(
            scored_users(active_users(users), required_skills, project_id, projects))
    IN [suggestions |-> Take(suggestions, 5),
        required_skills |-> required_skills,
        confidence |-> IF suggestions # <<>> THEN 70 ELSE 30]

subtask(title, description, priority, estimated_hours) ==
    [title |-> title, description |-> description, priority |-> priority,
     estimated_hours |-> estimated_hours]

\* variant: the keywords are looked for in the description as well
decompose_task_any_text(task_title, task_description) ==
    IF AnyIn(<<"implement", "create", "build", "develop">>,
             lower(task_title \o " " \o task_description))
    THEN << subtask("Design and plan: " \o task_title,
                    "Create technical design and implementation plan", "high", 4),
            subtask("Implement core functionality: " \o task_title,
                    "Develop the main features and functionality", "high", 16),
            subtask("Write tests: " \o task_title,
                    "Create unit and integration tests", "medium", 6),
            subtask("Documentation: " \o task_title,
                    "Write documentation and usage examples", "low", 2) >>
    ELSE IF AnyIn(<<"fix", "bug", "issue">>, lower(task_title \o " " \o task_description))
    THEN << subtask("Investigate: " \o task_title, "Identify root cause and impact", "high", 2),
            subtask("Fix: " \o task_title, "Implement the fix", "high", 4),
            subtask("Test: " \o task_title, "Verify the fix and prevent regression",
                    "medium", 2) >>
    ELSE <<>>

decompose_task(task_title, task_description) ==
    IF AnyIn(<<"implement", "create", "build", "develop">>, lower(task_title))
    THEN << subtask("Design and plan: " \o task_title,
                    "Create technical design and implementation plan", "high", 4),
            subtask("Implement core functionality: " \o task_title,
                    "Develop the main features and functionality", "high", 16),
            subtask("Write tests: " \o task_title,
                    "Create unit and integration tests", "medium", 6),
            subtask("Documentation: " \o task_title,
                    "Write documentation and usage examples", "low", 2) >>
    ELSE IF AnyIn(<<"fix", "bug", "issue">>, lower(task_title))
    THEN << subtask("Investigate: " \o task_title, "Identify root cause and impact", "high", 2),
            subtask("Fix: " \o task_title, "Implement the fix", "high", 4),
            subtask("Test: " \o task_title, "Verify the fix and prevent regression",
                    "medium", 2) >>
    ELSE <<>>

\* Task.query.filter_by(project_id=project_id).all(), as the list of rows
RECURSIVE rows_from(_, _, _)
rows_from(tasks, ids, project_id) ==
    IF ids = {} THEN <<>>
    ELSE LET i == CHOOSE x \in ids : \A y \in ids : x <= y
         IN (IF tasks[i].project_id = project_id THEN <<tasks[i]>> ELSE <<>>)
            \o rows_from(tasks, ids \ {i}, project_id)
tasks_of(tasks, project_id) == rows_from(tasks, DOMAIN tasks, project_id)

\* sum(1 for t in tasks if pred(t))
count(tasks, pred(_)) == Len(SelectSeq(tasks, pred))

\* sum(float(t.<field> or 0) for t in tasks)
RECURSIVE sum_hours(_, _)
sum_hours(tasks, field) ==
    IF tasks = <<>> THEN 0
    ELSE (IF Head(tasks)[field].some THEN Head(tasks)[field].v ELSE 0)
         + sum_hours(Tail(tasks), field)


\* variant: the division without its total_tasks > 0 guard
completion_divisors_unguarded(total_tasks) == {total_tasks}

\* the divisor of completed_tasks / total_tasks * 100, which the code
\* evaluates only if total_tasks > 0
completion_divisors(total_tasks) == IF total_tasks > 0 THEN {total_tasks} ELSE {}

\* variant: the prediction is made whenever a task is completed, whatever
\* the velocity
predict_completion_any_velocity(completed_tasks, total_tasks, velocity_num, velocity_den) ==
    IF completed_tasks > 0
    THEN Some([num |-> (total_tasks - completed_tasks) * velocity_den, den |-> velocity_num])
    ELSE None

\* predicted_completion is datetime.now() + timedelta(weeks=remaining/velocity),
\* kept as the offset from now in weeks, a fraction num/den; None otherwise
predict_completion(completed_tasks, total_tasks, velocity_num, velocity_den) ==
    IF completed_tasks > 0 /\ velocity_num > 0
    THEN Some([num |-> (total_tasks - completed_tasks) * velocity_den, den |-> velocity_num])
    ELSE None

\* Numbers: completion_percentage in tenths of a percent (round(x, 1)),
\* velocity in hundredths (round(x, 2)), hours in whole hours.  A division
\* by zero raises ZeroDivisionError.
track_build_progress(project_id, projects, all_tasks) ==
    IF project_id \notin DOMAIN projects
    THEN Returned([error |-> "Project not found"])
    ELSE
    LET tasks == tasks_of(all_tasks, project_id)
        total_tasks == Len(tasks)
        completed_tasks == count(tasks, LAMBDA t : t.status = "completed")
        in_progress_tasks == count(tasks, LAMBDA t : t.status = "in_progress")
        blocked_tasks == count(tasks, LAMBDA t : t.status = "blocked")
        total_estimated == sum_hours(tasks, "estimated_hours")
        total_actual == sum_hours(tasks, "actual_hours")
        completed_with_dates ==
            count(tasks, LAMBDA t : t.completed_date.some /\ t.status = "completed")
        velocity_den == Max(1, total_tasks \div 7)
        divisors == {velocity_den} \cup completion_divisors(total_tasks)
                    \cup (IF completed_tasks > 0 /\ completed_with_dates > 0
                          THEN {completed_with_dates} ELSE {})
    IN IF 0 \in divisors THEN Raised("ZeroDivisionError")
       ELSE Returned(
        [project_id |-> project_id,
         project_name |-> projects[project_id].name,
         total_tasks |-> total_tasks,
         completed_tasks |-> completed_tasks,
         in_progress_tasks |-> in_progress_tasks,
         blocked_tasks |-> blocked_tasks,
         completion_percentage |->
            IF total_tasks > 0 THEN RoundDiv(1000 * completed_tasks, total_tasks) ELSE 0,
         total_estimated_hours |-> total_estimated,
         total_actual_hours |-> total_actual,
         velocity |-> RoundDiv(100 * completed_with_dates, velocity_den),
         predicted_completion |->
            predict_completion(completed_tasks, total_tasks, completed_with_dates, velocity_den),
         on_track |-> IF total_estimated > 0
                      THEN 10 * total_actual <= 11 * total_estimated ELSE TRUE])

(* services/ai_task_engine.py : BuildTracker *)

\* variant: min(100, health_score), the floor at 0 forgotten
clamp_health_no_floor(health_score) == Min(100, health_score)

\* max(0, min(100, health_score))
clamp_health(health_score) == Max(0, Min(100, health_score))

get_build_status(project_id, projects, all_tasks) ==
    LET tracked == track_build_progress(project_id, projects, all_tasks)
    IN IF tracked.kind = "raise" THEN tracked
       ELSE
       LET progress == tracked.value
           blocked == Get(progress, "blocked_tasks", 0)
           health_score ==
               100 - (IF blocked > 0 THEN progress.blocked_tasks * 10 ELSE 0)
                   - (IF ~Get(progress, "on_track", TRUE) THEN 20 ELSE 0)
                   - (IF Get(progress, "completion_percentage", 0) < 100 THEN 10 ELSE 0)
           health == clamp_health(health_score)
       IN Returned(
            [health_score |-> health,
             health_status |-> IF health >= 90 THEN "excellent"
                               ELSE IF health >= 75 THEN "good"
                               ELSE IF health >= 60 THEN "fair" ELSE "poor"]
            @@ progress)

----------------------------------------------------------------------------
(* models.py : Task, Project, User rows *)

\* Task(...) as inserted: columns the caller leaves out get NULL, and
\* actual_hours gets its column default 0.00.  description, assigned_to,
\* estimated_hours, the dates and parent_task_id are optional.
Task(project_id, title, description, priority, status, estimated_hours) ==
    [project_id |-> project_id, title |-> title, description |-> description,
     assigned_to |-> None, status |-> status, priority |-> priority,
     estimated_hours |-> estimated_hours, actual_hours |-> Some(0),
     due_date |-> None, completed_date |-> None, parent_task_id |-> None]

Project(name, department_id, project_manager_id) ==
    [name |-> name, department_id |-> department_id,
     project_manager_id |-> project_manager_id]

User(id, username, role, department, is_active) ==
    [id |-> id, username |-> username, role |-> role, department |-> department,
     is_active |-> is_active]

----------------------------------------------------------------------------
(* Requests to the agent *)

MaxLabels == 1

Titles == {"SyntaxError in parser", "Fix typo in README", "TabError", "ImportError: SQL injection",
           "deprecated call", "Update README", ""}
Bodies == {"", "TypeError", "CVE-77", "ModuleNotFoundError", "spelling", "xss vulnerability",
           "Nothing matches here"}
LabelDicts == {[name |-> "auto-fix"], [name |-> "auto-merge"], [name |-> "safe-to-merge"],
               [name |-> "enhancement"], [name |-> "bug"], [color |-> "red"],
               [name |-> "auto-document"], [name |-> "auto-test"], [name |-> "quick-fix"]}
LabelLists == UNION {[1..n -> LabelDicts] : n \in 0..MaxLabels}
ChecksStatuses == {"success", "failure", "pending", "SUCCESS", ""}

\* issue payloads {number, title, body, labels}; any key may be absent
IssuePayloads ==
    {[k \in K |-> CASE k = "number" -> 7
                    [] k = "title" -> t
                    [] k = "body" -> b
                    [] k = "labels" -> ls] :
        K \in SUBSET {"number", "title", "body", "labels"},
        t \in Titles, b \in Bodies, ls \in LabelLists}

PRPayloads ==
    {[k \in K |-> CASE k = "number" -> 456 [] k = "labels" -> ls] :
        K \in SUBSET {"number", "labels"}, ls \in LabelLists}

\* fix_data as create_pr_strategy may be handed it; any key may be absent
FixPayloads ==
    {[k \in K |-> CASE k = "fixable" -> f
                    [] k = "fix_type" -> t
                    [] k = "confidence" -> c
                    [] k = "code_changes" -> <<[description |-> "Correct spelling errors"]>>
                    [] k = "explanation" -> "Fix typos and spelling errors"] :
        K \in {{}, {"fixable", "fix_type", "confidence"},
               {"fixable", "fix_type", "confidence", "code_changes", "explanation"}},
        f \in BOOLEAN, t \in {"typo", "syntax", "import", "manual"},
        c \in {0, 85, 89, 90, 95}}

TaskPayloads ==
    { [title |-> Some("Fix typo in README"), issue_number |-> Some(7)],
      [title |-> None, issue_number |-> None],
      [issue_number |-> Some(7)] }

AgentCalls ==
    {[op |-> "execute_autonomous_workflow", issue_data |-> d] : d \in IssuePayloads}
    \cup {[op |-> "should_auto_merge_pr", pr_data |-> p, checks_status |-> c] :
            p \in PRPayloads, c \in ChecksStatuses}
    \cup {[op |-> "generate_fix_code", issue_description |-> b, error_context |-> t] :
            b \in Bodies \cup {"typo in a deprecated call", "bad indentation, ImportError"},
            t \in Titles}
    \cup {[op |-> "create_pr_strategy", task_data |-> t, fix_data |-> f] :
            t \in TaskPayloads, f \in FixPayloads}

NoWorkflow == [status |-> "none"]
NoCall == [op |-> "none"]
EmptyStore == <<>>
CleanSession == [active |-> TRUE, new |-> <<>>]

----------------------------------------------------------------------------
(* AutonomousAgent.execute_autonomous_workflow, one action per step *)

\* variant: the operation deletes the rows of table tasks
StoreUnchanged_tasks_deleted ==
    /\ db_tasks' = EmptyStore
    /\ UNCHANGED <<db_projects, db_users, db_time_entries, session, next_id,
                   fk_enforced, served>>

StoreUnchanged ==
    UNCHANGED <<db_tasks, db_projects, db_users, db_time_entries, session, next_id,
                fk_enforced, served>>

step(name, data) == [step |-> name, status |-> "complete", data |-> data]

WorkflowAnalyze ==
    /\ call.op = "execute_autonomous_workflow" /\ pc = "start"
    /\ LET strategy == analyze_issue_for_automation(call.issue_data)
           w0 == [issue_id |-> GetOpt(call.issue_data, "number"),
                  steps_completed |-> <<step("analyze", strategy)>>,
                  status |-> "pending", pr_created |-> FALSE, pr_url |-> None,
                  auto_merged |-> FALSE]
       IN IF ~strategy.automatable
          THEN /\ wf' = [w0 EXCEPT !.status = "manual_intervention_required"]
               /\ result' = Returned(wf')
               /\ pc' = "done"
          ELSE /\ wf' = w0
               /\ pc' = "generate_fix"
               /\ UNCHANGED result
    /\ UNCHANGED call /\ StoreUnchanged

\* variant: the workflow goes on to the PR strategy whatever fixable is
WorkflowGenerateFix_goes_on ==
    /\ call.op = "execute_autonomous_workflow" /\ pc = "generate_fix"
    /\ LET fix_data == generate_fix_code(Get(call.issue_data, "body", ""),
                                         Get(call.issue_data, "title", ""))
       IN wf' = [wf EXCEPT !.steps_completed = Append(@, step("generate_fix", fix_data))]
    /\ pc' = "pr_strategy"
    /\ UNCHANGED <<call, result>> /\ StoreUnchanged

WorkflowGenerateFix ==
    /\ call.op = "execute_autonomous_workflow" /\ pc = "generate_fix"
    /\ LET fix_data == generate_fix_code(Get(call.issue_data, "body", ""),
                                         Get(call.issue_data, "title", ""))
           w1 == [wf EXCEPT !.steps_completed = Append(@, step("generate_fix", fix_data))]
       IN IF ~fix_data.fixable
          THEN /\ wf' = [w1 EXCEPT !.status = "not_fixable"]
               /\ result' = Returned(wf')
               /\ pc' = "done"
          ELSE /\ wf' = w1
               /\ pc' = "pr_strategy"
               /\ UNCHANGED result
    /\ UNCHANGED call /\ StoreUnchanged

WorkflowPRStrategy ==
    /\ call.op = "execute_autonomous_workflow" /\ pc = "pr_strategy"
    /\ LET fix_data == wf.steps_completed[2].data
           pr_strategy == create_pr_strategy(
                              [title |-> GetOpt(call.issue_data, "title"),
                               issue_number |-> GetOpt(call.issue_data, "number")],
                              fix_data)
       IN IF pr_strategy.kind = "raise"
          THEN /\ result' = pr_strategy
               /\ UNCHANGED wf
          ELSE /\ wf' = [wf EXCEPT
                           !.steps_completed = Append(@, step("pr_strategy", pr_strategy.value)),
                           !.pr_created = TRUE,
                           !.pr_url = Some("https://github.com/repo/pull/simulation"),
                           !.status = "pr_created"]
               /\ result' = Returned(wf')
    /\ pc' = "done"
    /\ UNCHANGED call /\ StoreUnchanged

ShouldAutoMerge ==
    /\ call.op = "should_auto_merge_pr" /\ pc = "start"
    /\ result' = Returned(should_auto_merge_pr(call.pr_data, call.checks_status))
    /\ pc' = "done"
    /\ UNCHANGED <<call, wf>> /\ StoreUnchanged

GenerateFixCode ==
    /\ call.op = "generate_fix_code" /\ pc = "start"
    /\ result' = Returned(generate_fix_code(call.issue_description, call.error_context))
    /\ pc' = "done"
    /\ UNCHANGED <<call, wf>> /\ StoreUnchanged

CreatePRStrategy ==
    /\ call.op = "create_pr_strategy" /\ pc = "start"
    /\ result' = create_pr_strategy(call.task_data, call.fix_data)
    /\ pc' = "done"
    /\ UNCHANGED <<call, wf>> /\ StoreUnchanged

InitAgent ==
    /\ call \in AgentCalls
    /\ pc = "start"
    /\ result = NoResult
    /\ wf = NoWorkflow
    /\ db_tasks = EmptyStore /\ db_projects = EmptyStore /\ db_users = <<>>
    /\ db_time_entries = <<>> /\ served = 0
    /\ session = CleanSession /\ next_id = 1 /\ fk_enforced = FALSE

NextAgent ==
    \/ WorkflowAnalyze \/ WorkflowGenerateFix \/ WorkflowPRStrategy \/ ShouldAutoMerge
    \/ GenerateFixCode \/ CreatePRStrategy

SpecAgent == InitAgent /\ [][NextAgent]_vars

----------------------------------------------------------------------------
(* Properties of the workflow and of the merge decision *)

WorkflowDone == call.op = "execute_autonomous_workflow" /\ pc = "done"

step_names(w) == [i \in 1..Len(w.steps_completed) |-> w.steps_completed[i].step]

\* the text the classifier searches
issue_content(d) == lower(Get(d, "title", "") \o " " \o Get(d, "body", ""))

matches_no_pattern(d) ==
    \A i \in 1..Len(FIX_PATTERNS) : ~re_search(FIX_PATTERNS[i].detection, issue_content(d))

has_trigger_label(d) ==
    "labels" \in DOMAIN d
    /\ \E i \in 1..Len(d.labels) :
          "name" \in DOMAIN d.labels[i] /\ d.labels[i].name \in DOMAIN AUTOMATION_TRIGGERS

\* C1: every call of execute_autonomous_workflow returns a result whose
\* status is manual_intervention_required, not_fixable or pr_created (never
\* pending), whose trace is [analyze], [analyze, generate_fix] or
\* [analyze, generate_fix, pr_strategy] respectively, and whose trace
\* entries all have status complete.
C1_EveryCallReturnsTerminal ==
    WorkflowDone =>
        /\ result.kind = "return"
        /\ LET w == result.value
           IN /\ w.status \in {"manual_intervention_required", "not_fixable", "pr_created"}
              /\ step_names(w) =
                    CASE w.status = "manual_intervention_required" -> <<"analyze">>
                      [] w.status = "not_fixable" -> <<"analyze", "generate_fix">>
                      [] w.status = "pr_created" -> <<"analyze", "generate_fix", "pr_strategy">>
              /\ \A i \in 1..Len(w.steps_completed) : w.steps_completed[i].status = "complete"

\* C27: execute_autonomous_workflow returns a workflow result and does not
\* raise for every issue payload, also one that lacks title, body or labels;
\* an automatable, fixable issue without a title reaches pr_created.
C27_AbsentKeysTolerated ==
    WorkflowDone =>
        /\ result.kind = "return"
        /\ ("title" \notin DOMAIN call.issue_data
             /\ analyze_issue_for_automation(call.issue_data).automatable
             /\ generate_fix_code(Get(call.issue_data, "body", ""), "").fixable)
                => result.value.status = "pr_created"

\* C29: in every workflow result pr_created is true exactly when the status
\* is pr_created, and so is pr_url non-null; auto_merged is always false;
\* and when the status is pr_created the analyze payload has automatable =
\* true, the generate_fix payload fixable = true and the pr_strategy payload
\* should_create_pr = true.
C29_ResultFieldsAgree ==
    (WorkflowDone /\ result.kind = "return") =>
        LET w == result.value
        IN /\ w.pr_created <=> w.status = "pr_created"
           /\ w.pr_url.some <=> w.status = "pr_created"
           /\ ~w.auto_merged
           /\ w.status = "pr_created" =>
                /\ Len(w.steps_completed) = 3
                /\ w.steps_completed[1].data.automatable
                /\ w.steps_completed[2].data.fixable
                /\ w.steps_completed[3].data.should_create_pr

C29_Witness ==
    /\ WorkflowDone /\ result.kind = "return"
    /\ result.value.status = "pr_created" /\ result.value.pr_created
    /\ result.value.pr_url = Some("https://github.com/repo/pull/simulation")
    /\ result.value.steps_completed[3].data.should_create_pr
    /\ result.value.steps_completed[3].data.auto_merge

\* the words generate_fix_code looks for in body + " " + title
FixKeywords == <<"syntaxerror", "indentation", "importerror", "modulenotfound",
                 "sql injection", "xss", "csrf", "vulnerability", "deprecat",
                 "typo", "spelling">>

names_no_fix(d) == ~AnyIn(FixKeywords, lower(Get(d, "body", "") \o " " \o Get(d, "title", "")))

\* C30: an automatable issue whose body and title contain none of the
\* keywords of generate_fix_code (a text that matches only TypeError /
\* AttributeError, TabError or CVE-<digits>, or an issue automatable only
\* through a trigger label) ends in not_fixable with exactly the two trace
\* entries analyze and generate_fix, and pr_created = false.
C30_NoKeywordNotFixable ==
    (/\ WorkflowDone
     /\ analyze_issue_for_automation(call.issue_data).automatable
     /\ names_no_fix(call.issue_data))
        => /\ result.kind = "return"
           /\ result.value.status = "not_fixable"
           /\ step_names(result.value) = <<"analyze", "generate_fix">>
           /\ ~result.value.pr_created

C30_Witness ==
    /\ WorkflowDone /\ names_no_fix(call.issue_data)
    /\ ~has_trigger_label(call.issue_data)
    /\ ~matches_no_pattern(call.issue_data)
    /\ result.value.status = "not_fixable"

\* C2: an issue whose title+body match no FIX_PATTERNS regex and whose labels
\* hold no AUTOMATION_TRIGGERS label ends in manual_intervention_required
\* with exactly one trace entry, the analyze step.
C2_NoMatchIsManual ==
    (WorkflowDone /\ matches_no_pattern(call.issue_data) /\ ~has_trigger_label(call.issue_data))
        => /\ result.kind = "return"
           /\ result.value.status = "manual_intervention_required"
           /\ step_names(result.value) = <<"analyze">>

C2_Witness ==
    /\ WorkflowDone
    /\ matches_no_pattern(call.issue_data) /\ ~has_trigger_label(call.issue_data)
    /\ "labels" \in DOMAIN call.issue_data /\ Len(call.issue_data.labels) > 0
    /\ Get(call.issue_data, "body", "") # ""
    /\ result.kind = "return"

pr_has_merge_label(pr) ==
    "labels" \in DOMAIN pr
    /\ \E i \in 1..Len(pr.labels) :
          "name" \in DOMAIN pr.labels[i]
          /\ pr.labels[i].name \in {"auto-merge", "safe-to-merge"}

\* C10: should_auto_merge_pr returns true iff the PR carries an auto-merge or
\* safe-to-merge label and checks_status is "success"; without such a label
\* it returns false for every checks_status.
C10_AutoMergeIff ==
    (call.op = "should_auto_merge_pr" /\ pc = "done")
        => /\ result.kind = "return"
           /\ result.value = (pr_has_merge_label(call.pr_data) /\ call.checks_status = "success")

C10_Witness ==
    /\ call.op = "should_auto_merge_pr" /\ pc = "done"
    /\ pr_has_merge_label(call.pr_data) /\ call.checks_status = "success"
    /\ result = Returned(TRUE)


\* the classification of the issue, once the workflow has taken its first step
Analyzed == call.op = "execute_autonomous_workflow" /\ pc # "start"
analysis == wf.steps_completed[1].data
pattern_matches(i, d) == re_search(FIX_PATTERNS[i].detection, issue_content(d))

\* C11: analyze_issue_for_automation takes automatable, auto_fix_type and
\* priority from the first FIX_PATTERNS entry, in the order syntax_error,
\* import_error, type_error, security_vulnerability, deprecation, whose regex
\* matches title+body; text with ImportError and SQL injection is
\* import_error/high; the title "SyntaxError in parser" with empty body and no
\* labels is automatable, syntax_error, high.
C11_FirstPatternWins ==
    Analyzed =>
        LET d == call.issue_data
        IN /\ [i \in 1..Len(FIX_PATTERNS) |-> FIX_PATTERNS[i].fix_type] =
                <<"syntax_error", "import_error", "type_error", "security_vulnerability",
                  "deprecation">>
           /\ \A i \in 1..Len(FIX_PATTERNS) :
                (pattern_matches(i, d) /\ \A j \in 1..(i - 1) : ~pattern_matches(j, d))
                    => /\ analysis.automatable = FIX_PATTERNS[i].auto_fixable
                       /\ analysis.auto_fix_type = Some(FIX_PATTERNS[i].fix_type)
                       /\ analysis.priority = FIX_PATTERNS[i].severity
           /\ (Contains("importerror", issue_content(d))
               /\ Contains("sql injection", issue_content(d))
               /\ ~Contains("syntaxerror", issue_content(d)))
                    => /\ analysis.auto_fix_type = Some("import_error")
                       /\ analysis.priority = "high"
           /\ (Get(d, "title", "") = "SyntaxError in parser" /\ Get(d, "body", "") = ""
               /\ Get(d, "labels", <<>>) = <<>>)
                    => /\ analysis.automatable
                       /\ analysis.auto_fix_type = Some("syntax_error")
                       /\ analysis.priority = "high"

C11_Witness ==
    /\ Analyzed
    /\ pattern_matches(2, call.issue_data) /\ pattern_matches(4, call.issue_data)
    /\ analysis.auto_fix_type = Some("import_error") /\ analysis.priority = "high"

\* C12: an issue with a trigger label (auto-fix, auto-merge, auto-document,
\* auto-test, quick-fix, enhancement) is automatable whether or not a pattern
\* matches, and the label's action text is among suggested_actions; when no
\* pattern matches, auto_fix_type is null and priority is medium; without a
\* trigger label and without a pattern match automatable is false.
C12_TriggerLabelForces ==
    Analyzed =>
        LET d == call.issue_data
            ls == Get(d, "labels", <<>>)
            TriggerLabels == {"auto-fix", "auto-merge", "auto-document", "auto-test",
                              "quick-fix", "enhancement"}
            triggers == {i \in 1..Len(ls) : Get(ls[i], "name", "") \in TriggerLabels}
        IN /\ DOMAIN AUTOMATION_TRIGGERS = TriggerLabels
           /\ triggers # {} => analysis.automatable
           /\ \A i \in triggers :
                \E k \in 1..Len(analysis.suggested_actions) :
                    analysis.suggested_actions[k] = AUTOMATION_TRIGGERS[ls[i].name]
           /\ matches_no_pattern(d)
                => /\ analysis.auto_fix_type = None
                   /\ analysis.priority = "medium"
                   /\ triggers = {} => ~analysis.automatable

C12_Witness ==
    /\ Analyzed
    /\ matches_no_pattern(call.issue_data) /\ has_trigger_label(call.issue_data)
    /\ call.issue_data.labels[1].name = "quick-fix"
    /\ analysis.automatable /\ analysis.auto_fix_type = None
    /\ analysis.suggested_actions[1] = "Apply quick fix and create PR"


\* C13: generate_fix_code checks syntax, import, security, deprecation, typo
\* in this order and the first match wins: fixable, exactly one remediation
\* step, and confidence 0.9, 0.85, 0.8, 0.75 or 0.95; text with "deprecated"
\* and "typo" is deprecation/0.75; with no match the result is not fixable,
\* fix_type "manual", confidence 0.0, no remediation steps.
C13_FirstFixCheckWins ==
    (call.op = "generate_fix_code" /\ pc = "done") =>
        LET content == lower(call.issue_description \o " " \o call.error_context)
            checks == <<
                [fix_type |-> "syntax", confidence |-> 90,
                 hit |-> Contains("syntaxerror", content) \/ Contains("indentation", content)],
                [fix_type |-> "import", confidence |-> 85,
                 hit |-> Contains("importerror", content) \/ Contains("modulenotfound", content)],
                [fix_type |-> "security", confidence |-> 80,
                 hit |-> \E w \in {"sql injection", "xss", "csrf", "vulnerability"} :
                            Contains(w, content)],
                [fix_type |-> "deprecation", confidence |-> 75,
                 hit |-> Contains("deprecat", content)],
                [fix_type |-> "typo", confidence |-> 95,
                 hit |-> Contains("typo", content) \/ Contains("spelling", content)] >>
            r == result.value
        IN /\ result.kind = "return"
           /\ \A i \in 1..Len(checks) :
                (checks[i].hit /\ \A j \in 1..(i - 1) : ~checks[j].hit)
                    => /\ r.fixable
                       /\ r.fix_type = checks[i].fix_type
                       /\ r.confidence = checks[i].confidence
                       /\ Len(r.code_changes) = 1
           /\ (\A i \in 1..Len(checks) : ~checks[i].hit)
                    => /\ ~r.fixable
                       /\ r.fix_type = "manual"
                       /\ r.confidence = 0
                       /\ r.code_changes = <<>>
           /\ (Contains("deprecated", content) /\ Contains("typo", content)
               /\ \A j \in 1..3 : ~checks[j].hit)
                    => r.fix_type = "deprecation" /\ r.confidence = 75

C13_Witness ==
    /\ call.op = "generate_fix_code" /\ pc = "done"
    /\ call.issue_description = "typo in a deprecated call" /\ call.error_context = ""
    /\ result.value.fix_type = "deprecation" /\ result.value.confidence = 75

\* C14: create_pr_strategy sets auto_merge only when the fix is fixable, its
\* confidence is >= 0.9 and its fix_type is typo or syntax; for a fix that is
\* not fixable it returns should_create_pr false, empty branch_name, pr_title
\* and pr_body, and auto_merge false, whatever confidence and fix_type.
C14_AutoMergeOnlyWhenSafe ==
    (call.op = "create_pr_strategy" /\ pc = "done") =>
        LET f == call.fix_data
            fixable == "fixable" \in DOMAIN f /\ f.fixable
        IN /\ (result.kind = "return" /\ result.value.auto_merge)
                => /\ fixable
                   /\ "confidence" \in DOMAIN f /\ f.confidence >= 90
                   /\ "fix_type" \in DOMAIN f /\ f.fix_type \in {"typo", "syntax"}
           /\ ~fixable
                => /\ result.kind = "return"
                   /\ ~result.value.should_create_pr
                   /\ result.value.branch_name = "" /\ result.value.pr_title = ""
                   /\ result.value.pr_body = ""
                   /\ ~result.value.auto_merge

C14_Witness ==
    /\ call.op = "create_pr_strategy" /\ pc = "done"
    /\ "fixable" \in DOMAIN call.fix_data /\ ~call.fix_data.fixable
    /\ call.fix_data.confidence = 95 /\ call.fix_data.fix_type = "typo"
    /\ result.kind = "return" /\ ~result.value.auto_merge

----------------------------------------------------------------------------
(* Progress queries over a populated board *)

MaxPerStatus == 2
MaxBlocked == 11

TheProjects == [p \in {"p1", "p2"} |->
                  IF p = "p1" THEN Project("Treasury portal", Some("d1"), "u2")
                  ELSE Project("Payroll", None, "u1")]
TheUsers == << User("u1", "root", "admin", None, TRUE),
               User("u2", "pm", "employee", Some("Finance"), TRUE),
               User("u3", "clerk", "employee", None, TRUE),
               User("u4", "gone", "admin", Some("Finance"), FALSE) >>
RequestedProjects == {"p1", "p9"}

\* hours every task of the board carries: (estimated_hours, actual_hours)
HourProfiles == {<<None, Some(0)>>, <<Some(8), Some(0)>>, <<Some(8), Some(9)>>,
                 <<Some(10), Some(11)>>, <<Some(8), None>>}

board_task(project_id, status, completed_date, hours) ==
    [Task(project_id, "Fix crash", None, "medium", status, hours[1]) EXCEPT
        !.completed_date = completed_date, !.actual_hours = hours[2]]

Repeat(x, n) == [i \in 1..n |-> x]

Boards ==
    {   Repeat(board_task("p1", "todo", None, h), a)
     \o Repeat(board_task("p1", "in_progress", None, h), b)
     \o Repeat(board_task("p1", "completed", Some("2024-05-01"), h), c)
     \o Repeat(board_task("p1", "completed", None, h), d)
     \o Repeat(board_task("p1", "blocked", None, h), e)
     \o Repeat(board_task("p2", "blocked", None, h), f) :
        a \in 0..MaxPerStatus, b \in 0..1, c \in 0..MaxPerStatus, d \in 0..1,
        e \in 0..MaxBlocked, f \in 0..1, h \in HourProfiles }

TrackBuildProgress ==
    /\ call.op = "track_build_progress" /\ pc = "start"
    /\ result' = track_build_progress(call.project_id, db_projects, db_tasks)
    /\ pc' = "done"
    /\ UNCHANGED <<call, wf>> /\ StoreUnchanged

GetBuildStatus ==
    /\ call.op = "get_build_status" /\ pc = "start"
    /\ result' = get_build_status(call.project_id, db_projects, db_tasks)
    /\ pc' = "done"
    /\ UNCHANGED <<call, wf>> /\ StoreUnchanged

InitProgress ==
    /\ call \in {[op |-> o, project_id |-> p] :
                    o \in {"track_build_progress", "get_build_status"},
                    p \in RequestedProjects}
    /\ pc = "start"
    /\ result = NoResult
    /\ wf = NoWorkflow
    /\ db_tasks \in Boards
    /\ db_projects = TheProjects /\ db_users = TheUsers
    /\ db_time_entries = <<>> /\ served = 0
    /\ session = CleanSession /\ next_id = Len(db_tasks) + 1 /\ fk_enforced = FALSE

NextProgress == TrackBuildProgress \/ GetBuildStatus

SpecProgress == InitProgress /\ [][NextProgress]_vars

ProgressDone == call.op \in {"track_build_progress", "get_build_status"} /\ pc = "done"
BuildStatusDone == call.op = "get_build_status" /\ pc = "done"

\* the rows of a project, counted directly on the table
ids_of(project_id) == {i \in DOMAIN db_tasks : db_tasks[i].project_id = project_id}
ids_with(project_id, status) == {i \in ids_of(project_id) : db_tasks[i].status = status}

\* C7: get_build_status on a project id absent from the store returns the
\* NotFound error object and no BuildStatus: the result has neither a
\* health_score nor a health_status.
C7_MissingProjectHasNoHealth ==
    (BuildStatusDone /\ call.project_id \notin DOMAIN db_projects)
        => /\ result.kind = "return"
           /\ "error" \in DOMAIN result.value
           /\ "health_score" \notin DOMAIN result.value
           /\ "health_status" \notin DOMAIN result.value

\* C8: for every project, get_build_status returns health_score =
\* max(0, min(100, 100 - 10*blocked_tasks - 20*[not on_track]
\* - 10*[completion_percentage < 10])), which lies within [0, 100] however
\* many tasks are blocked.
C8_HealthScoreFormula ==
    (BuildStatusDone /\ call.project_id \in DOMAIN db_projects)
        => /\ result.kind = "return"
           /\ LET r == result.value
                  raw == 100 - 10 * r.blocked_tasks
                             - (IF r.on_track THEN 0 ELSE 20)
                             - (IF r.completion_percentage < 100 THEN 10 ELSE 0)
              IN /\ r.blocked_tasks = Cardinality(ids_with(call.project_id, "blocked"))
                 /\ r.health_score = (IF raw < 0 THEN 0 ELSE IF raw > 100 THEN 100 ELSE raw)
                 /\ r.health_score \in 0..100

C8_Witness ==
    /\ BuildStatusDone /\ call.project_id \in DOMAIN db_projects
    /\ result.kind = "return"
    /\ result.value.blocked_tasks >= 11
    /\ ~result.value.on_track
    /\ result.value.health_score = 0

\* C9: track_build_progress on an existing project with 0 tasks returns
\* completion_percentage = 0 without a division by zero, and for any project
\* predicted_completion is null whenever completed_tasks = 0.
C9_NoTasksNoDivision ==
    (ProgressDone /\ call.project_id \in DOMAIN db_projects)
        => /\ result.kind = "return"
           /\ ids_of(call.project_id) = {} => result.value.completion_percentage = 0
           /\ ids_with(call.project_id, "completed") = {}
                => /\ result.value.completed_tasks = 0
                   /\ result.value.predicted_completion = None

C9_Witness ==
    /\ call.op = "track_build_progress" /\ pc = "done"
    /\ call.project_id \in DOMAIN db_projects
    /\ ids_of(call.project_id) = {} /\ DOMAIN db_tasks # {}
    /\ result.kind = "return"
    /\ result.value.total_tasks = 0
    /\ result.value.completion_percentage = 0
    /\ result.value.predicted_completion = None

\* C26: track_build_progress returns a predicted_completion exactly when
\* completed_tasks > 0 and velocity > 0, where velocity is the number of
\* completed tasks with a completed_date divided by max(1, total div 7);
\* the prediction is then now + (total - completed) / velocity weeks, which
\* is never earlier than the time of the call.
C26_PredictedCompletion ==
    (ProgressDone /\ result.kind = "return" /\ "total_tasks" \in DOMAIN result.value) =>
        LET ids == ids_of(call.project_id)
            total == Cardinality(ids)
            completed == Cardinality(ids_with(call.project_id, "completed"))
            dated == Cardinality({i \in ids_with(call.project_id, "completed") :
                                     db_tasks[i].completed_date.some})
            window == IF total \div 7 >= 1 THEN total \div 7 ELSE 1
            predicted == result.value.predicted_completion
        IN /\ predicted.some <=> (completed > 0 /\ dated > 0)
           /\ predicted.some =>
                /\ predicted.v.den > 0 /\ predicted.v.num >= 0
                \* num/den = (total - completed) / (dated / window)
                /\ predicted.v.num * dated = (total - completed) * window * predicted.v.den

C26_Witness ==
    /\ ProgressDone /\ result.kind = "return"
    /\ result.value.total_tasks >= 14
    /\ result.value.predicted_completion.some
    /\ result.value.predicted_completion.v.num > result.value.predicted_completion.v.den
    /\ result.value.completed_tasks > result.value.predicted_completion.v.den

----------------------------------------------------------------------------
(* db.session (models.py: db = SQLAlchemy()) over the tasks table.         *)
(* D = [tasks: committed rows, new: rows inserted by the open transaction, *)
(*      active: FALSE once a flush has failed and until rollback(),        *)
(*      next_id].  Every operation gives [D, exc].                         *)

OpenSession(tasks, sess, next) ==
    [tasks |-> tasks, new |-> sess.new, active |-> sess.active, next_id |-> next]

Ok(D) == [D |-> D, exc |-> None]
Fail(D, e) == [D |-> D, exc |-> Some(e)]

RECURSIVE with_rows(_, _)
with_rows(tasks, new) ==
    IF new = <<>> THEN tasks
    ELSE with_rows((Head(new).id :> Head(new).row) @@ tasks, Tail(new))

\* the rows a query in this session sees
visible(D) == with_rows(D.tasks, D.new)

user_ids == {db_users[i].id : i \in 1..Len(db_users)}

\* the FOREIGN KEY constraints of table tasks, when the database enforces them
fk_ok(D, row) ==
    ~fk_enforced
    \/ /\ row.project_id \in DOMAIN db_projects
       /\ row.parent_task_id.some => row.parent_task_id.v \in DOMAIN visible(D)
       /\ row.assigned_to.some => row.assigned_to.v \in user_ids

\* The transaction is rolled back: its rows are gone.  Their primary keys
\* were never stored, so the key counter is wound back with them.
rolled_back(D) == [D EXCEPT !.new = <<>>, !.next_id = @ - Len(D.new)]

\* session.add(row); session.flush().  A failed INSERT rolls the whole
\* transaction back and leaves the session inactive.
session_add_flush(D, row, db_ok) ==
    IF ~D.active THEN Fail(D, "PendingRollbackError")
    ELSE IF ~fk_ok(D, row) THEN Fail([rolled_back(D) EXCEPT !.active = FALSE], "IntegrityError")
    ELSE IF ~db_ok THEN Fail([rolled_back(D) EXCEPT !.active = FALSE], "OperationalError")
    ELSE Ok([D EXCEPT !.new = Append(@, [id |-> D.next_id, row |-> row]),
                      !.next_id = @ + 1])

\* session.commit() of a flushed session.  A failed COMMIT rolls back.
session_commit(D, db_ok) ==
    IF ~D.active THEN Fail(D, "PendingRollbackError")
    ELSE IF ~db_ok THEN Fail(rolled_back(D), "OperationalError")
    ELSE Ok([D EXCEPT !.tasks = with_rows(D.tasks, D.new), !.new = <<>>])

\* session.rollback(), and session.remove() at the end of a request
session_rollback(D) == [rolled_back(D) EXCEPT !.active = TRUE]

\* session.commit() after attributes of the loaded row id were set: the
\* UPDATE is flushed and committed, or the flush fails
session_commit_dirty(D, id, row, db_ok) ==
    IF ~D.active THEN Fail(D, "PendingRollbackError")
    ELSE IF ~fk_ok(D, row) THEN Fail([rolled_back(D) EXCEPT !.active = FALSE], "IntegrityError")
    ELSE IF ~db_ok THEN Fail([rolled_back(D) EXCEPT !.active = FALSE], "OperationalError")
    ELSE Ok([D EXCEPT !.tasks = with_rows((id :> row) @@ D.tasks, D.new), !.new = <<>>])

----------------------------------------------------------------------------
(* BuildTracker.create_feature_tasks *)

\* the loop over the subtasks: add, flush, remember the id.  fail_at = i
\* makes the i-th flush fail.  Gives [D, exc, ids].
\* variant: the loop commits after every flush instead of once at the end
RECURSIVE feature_loop_commit_each(_, _, _, _, _, _)
feature_loop_commit_each(D, project_id, subtasks, i, fail_at, created_task_ids) ==
    IF i > Len(subtasks) THEN [D |-> D, exc |-> None, ids |-> created_task_ids]
    ELSE LET task == Task(project_id, subtasks[i].title, Some(subtasks[i].description),
                          subtasks[i].priority, "todo", Some(subtasks[i].estimated_hours))
             flushed == session_add_flush(D, task, fail_at # i)
         IN IF flushed.exc.some
            THEN [D |-> flushed.D, exc |-> flushed.exc, ids |-> created_task_ids]
            ELSE feature_loop_commit_each(session_commit(flushed.D, TRUE).D, project_id,
                                          subtasks, i + 1, fail_at,
                                          Append(created_task_ids, D.next_id))

RECURSIVE feature_loop(_, _, _, _, _, _)
feature_loop(D, project_id, subtasks, i, fail_at, created_task_ids) ==
    IF i > Len(subtasks) THEN [D |-> D, exc |-> None, ids |-> created_task_ids]
    ELSE LET task == Task(project_id, subtasks[i].title, Some(subtasks[i].description),
                          subtasks[i].priority, "todo", Some(subtasks[i].estimated_hours))
             flushed == session_add_flush(D, task, fail_at # i)
         IN IF flushed.exc.some
            THEN [D |-> flushed.D, exc |-> flushed.exc, ids |-> created_task_ids]
            ELSE feature_loop(flushed.D, project_id, subtasks, i + 1, fail_at,
                              Append(created_task_ids, D.next_id))

\* fail_at = Len(subtasks) + 1 makes the final COMMIT fail.
\* Gives [D, result]: the list of ids, or the exception that propagates.
create_feature_tasks(D, project_id, feature_name, feature_description, fail_at) ==
    LET subtasks == decompose_task(feature_name, feature_description)
        looped == feature_loop(D, project_id, subtasks, 1, fail_at, <<>>)
    IN IF looped.exc.some
       THEN [D |-> looped.D, result |-> Raised(looped.exc.v)]
       ELSE LET committed == session_commit(looped.D, fail_at # Len(subtasks) + 1)
            IN IF committed.exc.some
               THEN [D |-> committed.D, result |-> Raised(committed.exc.v)]
               ELSE [D |-> committed.D, result |-> Returned(looped.ids)]

(* GitHubBoardSync.create_task_from_github_issue *)

priority_map(priority) ==
    CASE priority = "critical" -> "urgent"
      [] priority = "high" -> "high"
      [] priority = "medium" -> "medium"
      [] priority = "low" -> "low"
      [] OTHER -> "medium"

\* fail is "none", "flush" (the INSERT fails) or "commit" (the COMMIT fails).
\* Any exception is caught and None returned; there is no rollback(), and
\* log, the records the call writes to a logger, stays empty.
Logged(outcome, log) == [kind |-> outcome.kind, value |-> outcome.value, log |-> log]

create_task_from_github_issue(D, issue_data, project_id, fail) ==
    LET strategy == analyze_issue_for_automation(issue_data)
        task == Task(project_id, Get(issue_data, "title", ""),
                     Some("GitHub Issue #" \o fmt(GetOpt(issue_data, "number"), ToString)
                            \o "\n\n" \o Get(issue_data, "body", "")),
                     priority_map(strategy.priority), "todo",
                     Some(IF strategy.estimated_effort = "low" THEN 4
                          ELSE IF strategy.estimated_effort = "medium" THEN 8 ELSE 16))
        flushed == session_add_flush(D, task, fail # "flush")
    IN IF flushed.exc.some
       THEN [D |-> flushed.D, result |-> Logged(Returned(None), <<>>)]
       ELSE LET committed == session_commit(flushed.D, fail # "commit")
            IN IF committed.exc.some
               THEN [D |-> committed.D, result |-> Logged(Returned(None), <<>>)]
               ELSE [D |-> committed.D, result |-> Logged(Returned(Some(D.next_id)), <<>>)]

----------------------------------------------------------------------------
(* routes/ai_projects.py : create_feature_tasks *)

\* Task.to_dict()
to_dict(id, row) == [id |-> id] @@ row

Response(status, json) == Returned([status |-> status, json |-> json])

privileged(user) == user.role \in {"admin", "department_head"}

\* A request runs in a session of its own, which is removed when the
\* request ends.  An exception that escapes the handler is a 500 response.
create_feature_tasks_route(tasks, next, current_user, project_id, data, fail_at) ==
    LET D0 == OpenSession(tasks, CleanSession, next)
    IN IF /\ ~privileged(current_user)
          /\ (project_id \notin DOMAIN db_projects
              \/ db_projects[project_id].project_manager_id # current_user.id)
       THEN [D |-> D0, result |-> Response(403, [error |-> "Insufficient permissions"])]
       ELSE IF "feature_name" \notin DOMAIN data
       THEN [D |-> D0, result |-> Response(400, [error |-> "feature_name is required"])]
       ELSE LET created == create_feature_tasks(D0, project_id, data.feature_name,
                                                Get(data, "feature_description", ""), fail_at)
                task_ids == created.result.value
            IN IF created.result.kind = "raise"
               THEN [D |-> session_rollback(created.D),
                     result |-> Response(500, [error |-> "Internal Server Error"])]
               ELSE [D |-> session_rollback(created.D),
                     result |-> Response(201,
                        [success |-> TRUE,
                         created_tasks |-> [i \in 1..Len(task_ids) |->
                                              to_dict(task_ids[i], created.D.tasks[task_ids[i]])],
                         count |-> Len(task_ids)])]

----------------------------------------------------------------------------
(* The task store under feature creation and issue ingestion *)

MaxTasks == 6

FeatureNames == {"Build login", "Fix crash", "Update README"}
IngestedIssues ==
    {[number |-> 7, title |-> "Fix typo in README", body |-> "spelling",
      labels |-> <<[name |-> "bug"]>>],
     [number |-> 8, title |-> "SyntaxError in parser", body |-> "", labels |-> <<>>],
     [number |-> 9, title |-> "SQL injection in login", body |-> "", labels |-> <<>>],
     [number |-> 10, title |-> "Deprecated architecture", body |-> "", labels |-> <<>>]}
SessionUsers == {TheUsers[i] : i \in {1, 2, 3}}

Room(n) == Cardinality(DOMAIN db_tasks) + n <= MaxTasks

\* the database after a call, and the session a direct caller keeps
Store(D) == /\ db_tasks' = D.tasks
            /\ next_id' = D.next_id
KeepSession(D) == session' = [active |-> D.active, new |-> D.new]

Idle == pc = "idle"
Served == pc' = "done" /\ UNCHANGED <<wf, db_projects, db_users, fk_enforced>>
NoTimeLogged == UNCHANGED db_time_entries
NotCounted == UNCHANGED served

CreateFeatureRoute ==
    \E user \in SessionUsers, project_id \in RequestedProjects, name \in FeatureNames,
       fail_at \in 0..5 :
        /\ Idle /\ Room(Len(decompose_task(name, "")))
        /\ fail_at <= Len(decompose_task(name, "")) + 1
        /\ call' = [op |-> "create_feature_tasks_route", user |-> user.id,
                    project_id |-> project_id, feature_name |-> name, fail_at |-> fail_at]
        /\ LET r == create_feature_tasks_route(db_tasks, next_id, user, project_id,
                                               [feature_name |-> name], fail_at)
           IN Store(r.D) /\ result' = r.result
        /\ UNCHANGED session /\ NoTimeLogged /\ Served

CreateFeatureTasks ==
    \E project_id \in RequestedProjects, name \in FeatureNames, fail_at \in 0..5 :
        /\ Idle /\ Room(Len(decompose_task(name, "")))
        /\ fail_at <= Len(decompose_task(name, "")) + 1
        /\ call' = [op |-> "create_feature_tasks", project_id |-> project_id,
                    feature_name |-> name, fail_at |-> fail_at]
        /\ LET r == create_feature_tasks(OpenSession(db_tasks, session, next_id),
                                         project_id, name, "", fail_at)
           IN Store(r.D) /\ KeepSession(r.D) /\ result' = r.result
        /\ NoTimeLogged /\ Served

IngestIssue(issue) ==
    \E project_id \in RequestedProjects, fail \in {"none", "flush", "commit"} :
        /\ Idle /\ Room(1)
        /\ call' = [op |-> "create_task_from_github_issue", project_id |-> project_id,
                    issue_data |-> issue, fail |-> fail]
        /\ LET r == create_task_from_github_issue(OpenSession(db_tasks, session, next_id),
                                                  issue, project_id, fail)
           IN Store(r.D) /\ KeepSession(r.D) /\ result' = r.result
        /\ NoTimeLogged /\ Served

CreateTaskFromGithubIssue == \E issue \in IngestedIssues : IngestIssue(issue)

\* the caller takes the response; the next request can be served
NextRequest ==
    /\ pc = "done"
    /\ pc' = "idle" /\ call' = NoCall /\ result' = NoResult
    /\ UNCHANGED <<wf, db_tasks, db_projects, db_users, db_time_entries, session, next_id,
                   fk_enforced, served>>

InitStore ==
    /\ call = NoCall /\ pc = "idle" /\ result = NoResult /\ wf = NoWorkflow
    /\ db_tasks = EmptyStore
    /\ db_projects = TheProjects /\ db_users = TheUsers
    /\ db_time_entries = <<>> /\ served = 0
    /\ session = CleanSession /\ next_id = 1
    /\ fk_enforced \in BOOLEAN

StoreCreateFeatureRoute == CreateFeatureRoute /\ NotCounted
StoreCreateFeatureTasks == CreateFeatureTasks /\ NotCounted
\* the store specification ingests the first issue only
StoreCreateTaskFromGithubIssue ==
    NotCounted /\ \E issue \in {i \in IngestedIssues : i.number = 7} : IngestIssue(issue)

NextStore ==
    \/ StoreCreateFeatureRoute
    \/ StoreCreateFeatureTasks
    \/ StoreCreateTaskFromGithubIssue
    \/ NextRequest

SpecStore == InitStore /\ [][NextStore]_vars

FeatureCall == call.op \in {"create_feature_tasks_route", "create_feature_tasks"}
FeatureFailed ==
    \/ call.op = "create_feature_tasks" /\ result.kind = "raise"
    \/ call.op = "create_feature_tasks_route" /\ result.value.status = 500
FeatureSucceeded ==
    \/ call.op = "create_feature_tasks" /\ result.kind = "return"
    \/ call.op = "create_feature_tasks_route" /\ result.value.status = 201
feature_ids ==
    IF call.op = "create_feature_tasks" THEN result.value
    ELSE [i \in 1..result.value.json.count |-> result.value.json.created_tasks[i].id]

\* what the decomposition of the three feature names is to be
expected_subtasks(name) ==
    CASE name = "Build login" ->
            <<"Design and plan: Build login", "Implement core functionality: Build login",
              "Write tests: Build login", "Documentation: Build login">>
      [] name = "Fix crash" ->
            <<"Investigate: Fix crash", "Fix: Fix crash", "Test: Fix crash">>
      [] OTHER -> <<>>

\* C3: create_feature_tasks is all-or-nothing.  When persisting a subtask
\* fails (at a flush or at the final commit) the store afterwards holds none
\* of the call's subtasks; when it succeeds the store holds all of them (4
\* for a build-intent name, 3 for a fix-intent name) and the returned ids
\* name exactly those new tasks, in decomposition order.
C3_FeatureStep ==
    (Idle /\ FeatureCall')
        => /\ FeatureFailed' => db_tasks' = db_tasks
           /\ FeatureSucceeded' =>
                LET ids == feature_ids'
                    want == expected_subtasks(call'.feature_name)
                IN /\ Len(ids) = Len(want)
                   /\ \A i, j \in 1..Len(ids) : i # j => ids[i] # ids[j]
                   /\ DOMAIN db_tasks' = DOMAIN db_tasks \cup {ids[i] : i \in 1..Len(ids)}
                   /\ \A i \in 1..Len(ids) :
                        /\ ids[i] \notin DOMAIN db_tasks
                        /\ db_tasks'[ids[i]].title = want[i]
                        /\ db_tasks'[ids[i]].project_id = call'.project_id
                   /\ \A i \in DOMAIN db_tasks : db_tasks'[i] = db_tasks[i]
           /\ ~(FeatureFailed' /\ FeatureSucceeded')
           /\ (call'.op = "create_feature_tasks" /\ call'.fail_at > 0) => FeatureFailed'
C3_AllOrNothing == [][C3_FeatureStep]_vars

C3_Witness ==
    /\ call.op = "create_feature_tasks" /\ pc = "done"
    /\ call.feature_name = "Build login"
    /\ call.fail_at = 3
    /\ result.kind = "raise"
    /\ DOMAIN db_tasks # {}

\* C6: create_feature_tasks and create_task_from_github_issue called with a
\* project id absent from the store surface an error and create no Task, so
\* every stored Task's project_id names an existing Project.
C6_NoTaskWithoutProject ==
    \A i \in DOMAIN db_tasks : db_tasks[i].project_id \in DOMAIN db_projects

\* C19: when the store write of create_task_from_github_issue fails, the
\* failure is caught and reported (the call returns null), the failed
\* transaction is rolled back, so that no Task of the issue is persisted then
\* or by a later commit of the same session, and the failure is logged.
C19_FailedIngestStep ==
    (Idle /\ call'.op = "create_task_from_github_issue" /\ ~result'.value.some)
        => /\ result'.kind = "return"
           /\ db_tasks' = db_tasks
           /\ session'.new = <<>>
           /\ session'.active
           /\ result'.log # <<>>
C19_FailedIngestRolledBackAndLogged == [][C19_FailedIngestStep]_vars

\* C18: after a successful create_task_from_github_issue(issue, pid) a
\* track_build_progress / get_build_status query on pid shows total_tasks
\* greater by exactly 1, the completed, in-progress and blocked counts as
\* they were, and total_estimated_hours greater by 4, 8 or 16 for an
\* estimated_effort of low, medium or high; the new task has status Todo and
\* the priority mapped from the strategy (critical to Urgent, high to High,
\* medium to Medium, low to Low).
C18_IngestStep ==
    (Idle /\ call'.op = "create_task_from_github_issue" /\ result'.value.some)
        => LET pid == call'.project_id
               strategy == analyze_issue_for_automation(call'.issue_data)
               task == db_tasks'[result'.value.v]
               was == track_build_progress(pid, db_projects, db_tasks)
               now == track_build_progress(pid, db_projects', db_tasks')
               status == get_build_status(pid, db_projects', db_tasks')
           IN /\ task.status = "todo"
              /\ task.priority = (CASE strategy.priority = "critical" -> "urgent"
                                     [] strategy.priority = "high" -> "high"
                                     [] strategy.priority = "medium" -> "medium"
                                     [] strategy.priority = "low" -> "low")
              /\ now.kind = "return" /\ "total_tasks" \in DOMAIN now.value
              /\ was.kind = "return" /\ "total_tasks" \in DOMAIN was.value
              /\ status.kind = "return"
              /\ \A shown \in {now.value, status.value} :
                    /\ shown.total_tasks = was.value.total_tasks + 1
                    /\ shown.completed_tasks = was.value.completed_tasks
                    /\ shown.in_progress_tasks = was.value.in_progress_tasks
                    /\ shown.blocked_tasks = was.value.blocked_tasks
                    /\ shown.total_estimated_hours
                         = was.value.total_estimated_hours
                           + (CASE strategy.estimated_effort = "low" -> 4
                                [] strategy.estimated_effort = "medium" -> 8
                                [] strategy.estimated_effort = "high" -> 16)
C18_IngestShownInProgress == [][C18_IngestStep]_vars

----------------------------------------------------------------------------
(* routes/projects.py : create_task, update_task, log_time *)

TaskStatusValues == {"todo", "in_progress", "review", "completed", "blocked"}
TaskPriorityValues == {"low", "medium", "high", "urgent"}
Today == "2024-06-01"
\* the strings datetime.strptime(_, "%Y-%m-%d") accepts
ValidDates == {"2024-05-01", "2024-06-01"}

\* may current_user act on the project (Admin, DepartmentHead or its manager)
manages(current_user, project) ==
    privileged(current_user) \/ project.project_manager_id = current_user.id

create_task(tasks, next, current_user, data, db_ok) ==
    LET D0 == OpenSession(tasks, CleanSession, next)
        status == Get(data, "status", "todo")
        priority == Get(data, "priority", "medium")
        task == [Task(data.project_id, data.title, GetOpt(data, "description"), priority,
                      status, GetOpt(data, "estimated_hours")) EXCEPT
                    !.assigned_to = GetOpt(data, "assigned_to"),
                    !.due_date = IF Get(data, "due_date", "") # ""
                                 THEN Some(data.due_date) ELSE None,
                    !.parent_task_id = GetOpt(data, "parent_task_id")]
    IN IF data.project_id \notin DOMAIN db_projects
       THEN [D |-> D0, result |-> Response(404, [error |-> "Project not found"])]
       ELSE IF ~manages(current_user, db_projects[data.project_id])
       THEN [D |-> D0, result |-> Response(403, [error |-> "Unauthorized"])]
       ELSE IF "title" \notin DOMAIN data
       THEN [D |-> D0, result |-> Response(400, [success |-> FALSE, error |-> "KeyError"])]
       ELSE IF status \notin TaskStatusValues \/ priority \notin TaskPriorityValues
               \/ Get(data, "due_date", "") \notin ValidDates \cup {""}
       THEN [D |-> D0, result |-> Response(400, [success |-> FALSE, error |-> "ValueError"])]
       ELSE LET flushed == session_add_flush(D0, task, db_ok)
                committed == session_commit(flushed.D, TRUE)
            IN IF flushed.exc.some
               THEN [D |-> session_rollback(flushed.D),
                     result |-> Response(400, [success |-> FALSE, error |-> flushed.exc.v])]
               ELSE [D |-> committed.D,
                     result |-> Response(201, [success |-> TRUE,
                                               task |-> to_dict(D0.next_id, task)])]

\* variant: update_task also assigns parent_task_id from the request
updated_task_reparents(task, data) ==
    LET t1 == IF "title" \in DOMAIN data THEN [task EXCEPT !.title = data.title] ELSE task
        t2 == IF "description" \in DOMAIN data
              THEN [t1 EXCEPT !.description = Some(data.description)] ELSE t1
        t3 == IF "status" \in DOMAIN data
              THEN [t2 EXCEPT !.status = data.status,
                              !.completed_date =
                                  IF data.status = "completed" /\ ~t2.completed_date.some
                                  THEN Some(Today) ELSE @]
              ELSE t2
        t4 == IF "priority" \in DOMAIN data THEN [t3 EXCEPT !.priority = data.priority] ELSE t3
        t5 == IF "assigned_to" \in DOMAIN data
              THEN [t4 EXCEPT !.assigned_to = Some(data.assigned_to)] ELSE t4
        t6 == IF "estimated_hours" \in DOMAIN data
              THEN [t5 EXCEPT !.estimated_hours = Some(data.estimated_hours)] ELSE t5
        t7 == IF "actual_hours" \in DOMAIN data
              THEN [t6 EXCEPT !.actual_hours = Some(data.actual_hours)] ELSE t6
        t8 == IF "due_date" \in DOMAIN data /\ data.due_date # ""
              THEN [t7 EXCEPT !.due_date = Some(data.due_date)] ELSE t7
    IN IF "parent_task_id" \in DOMAIN data
       THEN [t8 EXCEPT !.parent_task_id = Some(data.parent_task_id)] ELSE t8

\* the assignments of update_task, in the order of the code
updated_task(task, data) ==
    LET t1 == IF "title" \in DOMAIN data THEN [task EXCEPT !.title = data.title] ELSE task
        t2 == IF "description" \in DOMAIN data
              THEN [t1 EXCEPT !.description = Some(data.description)] ELSE t1
        t3 == IF "status" \in DOMAIN data
              THEN [t2 EXCEPT !.status = data.status,
                              !.completed_date =
                                  IF data.status = "completed" /\ ~t2.completed_date.some
                                  THEN Some(Today) ELSE @]
              ELSE t2
        t4 == IF "priority" \in DOMAIN data THEN [t3 EXCEPT !.priority = data.priority] ELSE t3
        t5 == IF "assigned_to" \in DOMAIN data
              THEN [t4 EXCEPT !.assigned_to = Some(data.assigned_to)] ELSE t4
        t6 == IF "estimated_hours" \in DOMAIN data
              THEN [t5 EXCEPT !.estimated_hours = Some(data.estimated_hours)] ELSE t5
        t7 == IF "actual_hours" \in DOMAIN data
              THEN [t6 EXCEPT !.actual_hours = Some(data.actual_hours)] ELSE t6
    IN IF "due_date" \in DOMAIN data /\ data.due_date # ""
       THEN [t7 EXCEPT !.due_date = Some(data.due_date)] ELSE t7

update_task(tasks, next, current_user, task_id, data, db_ok) ==
    LET D0 == OpenSession(tasks, CleanSession, next)
        task == tasks[task_id]
    IN IF task_id \notin DOMAIN tasks
       THEN [D |-> D0, result |-> Response(404, [error |-> "Task not found"])]
       ELSE IF ~privileged(current_user) /\ task.project_id \notin DOMAIN db_projects
       THEN [D |-> D0, result |-> Response(500, [error |-> "Internal Server Error"])]
       ELSE IF /\ ~manages(current_user, db_projects[task.project_id])
               /\ task.assigned_to # Some(current_user.id)
       THEN [D |-> D0, result |-> Response(403, [error |-> "Unauthorized"])]
       ELSE IF \/ ("status" \in DOMAIN data /\ data.status \notin TaskStatusValues)
               \/ ("priority" \in DOMAIN data /\ data.priority \notin TaskPriorityValues)
               \/ ("due_date" \in DOMAIN data /\ data.due_date \notin ValidDates \cup {""})
       THEN [D |-> D0, result |-> Response(400, [success |-> FALSE, error |-> "ValueError"])]
       ELSE LET committed == session_commit_dirty(D0, task_id, updated_task(task, data), db_ok)
            IN IF committed.exc.some
               THEN [D |-> session_rollback(committed.D),
                     result |-> Response(400, [success |-> FALSE, error |-> committed.exc.v])]
               ELSE [D |-> committed.D,
                     result |-> Response(200,
                        [success |-> TRUE, task |-> to_dict(task_id, committed.D.tasks[task_id])])]

\* gives [D, entries, result]
log_time(tasks, entries, next, current_user, task_id, data, db_ok) ==
    LET D0 == OpenSession(tasks, CleanSession, next)
        task == tasks[task_id]
        time_entry == [task_id |-> task_id, user_id |-> current_user.id,
                       hours |-> data.hours, date |-> data.date,
                       description |-> GetOpt(data, "description")]
        logged == [task EXCEPT !.actual_hours =
                      Some((IF @.some THEN @.v ELSE 0) + data.hours)]
    IN IF task_id \notin DOMAIN tasks
       THEN [D |-> D0, entries |-> entries,
             result |-> Response(404, [error |-> "Task not found"])]
       ELSE IF "hours" \notin DOMAIN data \/ "date" \notin DOMAIN data
       THEN [D |-> D0, entries |-> entries,
             result |-> Response(400, [success |-> FALSE, error |-> "KeyError"])]
       ELSE IF data.date \notin ValidDates
       THEN [D |-> D0, entries |-> entries,
             result |-> Response(400, [success |-> FALSE, error |-> "ValueError"])]
       ELSE IF task.actual_hours.some /\ task.actual_hours.v # 0
       THEN \* a stored Numeric loads as a Decimal, and Decimal + float raises
            [D |-> D0, entries |-> entries,
             result |-> Response(400, [success |-> FALSE, error |-> "TypeError"])]
       ELSE LET committed == session_commit_dirty(D0, task_id, logged, db_ok)
            IN IF committed.exc.some
               THEN [D |-> session_rollback(committed.D), entries |-> entries,
                     result |-> Response(400, [success |-> FALSE, error |-> committed.exc.v])]
               ELSE [D |-> committed.D, entries |-> Append(entries, time_entry),
                     result |-> Response(201, [success |-> TRUE, time_entry |-> time_entry])]

(* routes/ai_projects.py : auto_assign_task, decompose_task *)

auto_assign_task(tasks, next, current_user, data, db_ok) ==
    LET D0 == OpenSession(tasks, CleanSession, next)
        task == tasks[data.task_id]
        suggestions == suggest_assignee(
            task.title, IF task.description.some THEN task.description.v ELSE "",
            Some(task.project_id), db_users, db_projects)
        best_assignee == suggestions.suggestions[1]
        assigned == [task EXCEPT !.assigned_to = Some(best_assignee.user_id),
                                 !.status = "todo"]
    IN IF ~privileged(current_user)
       THEN [D |-> D0, result |-> Response(403, [error |-> "Insufficient permissions"])]
       ELSE IF "task_id" \notin DOMAIN data
       THEN [D |-> D0, result |-> Response(400, [error |-> "task_id is required"])]
       ELSE IF data.task_id \notin DOMAIN tasks
       THEN [D |-> D0, result |-> Response(404, [error |-> "Task not found"])]
       ELSE IF suggestions.suggestions = <<>>
       THEN [D |-> D0, result |-> Response(404, [error |-> "No suitable assignee found"])]
       ELSE LET committed == session_commit_dirty(D0, data.task_id, assigned, db_ok)
            IN IF committed.exc.some
               THEN [D |-> session_rollback(committed.D),
                     result |-> Response(500,
                        [error |-> "Failed to assign task: " \o committed.exc.v])]
               ELSE [D |-> committed.D,
                     result |-> Response(200,
                        [success |-> TRUE, task_id |-> data.task_id,
                         assigned_to |-> best_assignee,
                         confidence |-> suggestions.confidence])]

\* the loop of the route over the suggestions: add, flush, to_dict.
\* fail_at = i makes the i-th flush fail.  Gives [D, exc, created].
RECURSIVE subtask_loop(_, _, _, _, _, _, _)
subtask_loop(D, project_id, parent_task_id, suggestions, i, fail_at, created_subtasks) ==
    IF i > Len(suggestions) THEN [D |-> D, exc |-> None, created |-> created_subtasks]
    ELSE LET sub == [Task(project_id, suggestions[i].title, Some(suggestions[i].description),
                          suggestions[i].priority, "todo",
                          Some(suggestions[i].estimated_hours)) EXCEPT
                        !.parent_task_id = parent_task_id]
             flushed == session_add_flush(D, sub, fail_at # i)
         IN IF flushed.exc.some
            THEN [D |-> flushed.D, exc |-> flushed.exc, created |-> created_subtasks]
            ELSE subtask_loop(flushed.D, project_id, parent_task_id, suggestions, i + 1,
                              fail_at, Append(created_subtasks, to_dict(D.next_id, sub)))

decompose_task_route(tasks, next, current_user, data, fail_at) ==
    LET D0 == OpenSession(tasks, CleanSession, next)
        by_id == "task_id" \in DOMAIN data
        task == tasks[data.task_id]
        title == IF by_id THEN task.title ELSE data.title
        description == IF by_id
                       THEN (IF task.description.some THEN task.description.v ELSE "")
                       ELSE Get(data, "description", "")
        project_id == IF by_id THEN task.project_id ELSE data.project_id
        parent_task_id == IF by_id THEN Some(data.task_id) ELSE None
        subtask_suggestions == decompose_task(title, description)
        looped == subtask_loop(D0, project_id, parent_task_id, subtask_suggestions, 1,
                               fail_at, <<>>)
        committed == session_commit(looped.D, fail_at # Len(subtask_suggestions) + 1)
    IN IF by_id /\ data.task_id \notin DOMAIN tasks
       THEN [D |-> D0, result |-> Response(404, [error |-> "Task not found"])]
       ELSE IF ~by_id /\ ("title" \notin DOMAIN data \/ "project_id" \notin DOMAIN data)
       THEN [D |-> D0, result |-> Response(400, [error |-> "title and project_id required"])]
       ELSE IF ~Get(data, "create_subtasks", FALSE)
       THEN [D |-> D0, result |-> Response(200, [suggestions |-> subtask_suggestions,
                                                 count |-> Len(subtask_suggestions)])]
       ELSE IF /\ ~privileged(current_user)
               /\ (project_id \notin DOMAIN db_projects
                   \/ db_projects[project_id].project_manager_id # current_user.id)
       THEN [D |-> D0, result |-> Response(403, [error |-> "Insufficient permissions"])]
       ELSE IF looped.exc.some
       THEN [D |-> session_rollback(looped.D),
             result |-> Response(500, [error |-> "Failed to create subtasks: " \o looped.exc.v])]
       ELSE IF committed.exc.some
       THEN [D |-> session_rollback(committed.D),
             result |-> Response(500,
                            [error |-> "Failed to create subtasks: " \o committed.exc.v])]
       ELSE [D |-> committed.D,
             result |-> Response(200, [success |-> TRUE, created_subtasks |-> looped.created,
                                       count |-> Len(looped.created)])]

----------------------------------------------------------------------------
(* utils.py : safe_error_response *)

\* An exception is [type, message].  handling is sys.exc_info() at the
\* call: the exception being handled, or None outside an except block.
\* logger.error(msg, exc_info=True) writes one record: its message, and the
\* traceback text of the exception being handled, which ends in
\* "<type>: <message>" ("NoneType: None" when there is none).
\* Gives [result, log].
safe_error_response(exception, default_message, handling) ==
    [result |-> default_message,
     log |-> <<[level |-> "error",
                msg |-> "Error occurred: " \o exception.type,
                exc_text |-> IF handling.some
                             THEN handling.v.type \o ": " \o handling.v.message
                             ELSE "NoneType: None"]>>]

----------------------------------------------------------------------------
(* Calls of the AITaskEngine functions *)

MaxWords == 2

\* " ".join(words)
RECURSIVE Joined(_)
Joined(words) ==
    IF words = <<>> THEN ""
    ELSE IF Len(words) = 1 THEN Head(words)
    ELSE Head(words) \o " " \o Joined(Tail(words))

\* a description of n one-letter words
RECURSIVE Padding(_)
Padding(n) ==
    IF n = 0 THEN ""
    ELSE IF n = 1 THEN "x "
    ELSE Padding(n \div 2) \o Padding(n - n \div 2)

\* a text to analyse: the words of the title, the number of words of the
\* description, and the positions of the title a high keyword was added at
TextCall(words, padding, added) ==
    [op |-> "analyze_task_complexity", words |-> words, padding |-> padding,
     added |-> added, title |-> Joined(words), description |-> Padding(padding)]

Exceptions == {[type |-> "ValueError", message |-> "Database connection failed"],
               [type |-> "KeyError", message |-> "title"]}

EngineCalls ==
    {TextCall(ws, n, {}) :
        ws \in UNION {[1..k -> {"plan", "Fix", "Update"}] : k \in 1..MaxWords},
        n \in {0, 18, 99}}
    \cup
    {[op |-> "decompose_task", task_title |-> t, task_description |-> d] :
        t \in {"Implement new login flow", "Fix crash on save", "Update README",
               "Build a fix for the bug", "REBUILD the index", "Known Issue", ""},
        d \in {"", "implement the fix"}}
    \cup {[op |-> "suggest_assignee", task_title |-> t, task_description |-> "",
           project_id |-> p] :
            t \in {"Update README", "Deploy the api",
                   "api ui deploy security sql test docs"},
            p \in {None, Some("p1"), Some("p2"), Some("p9")}}
    \cup {[op |-> "safe_error_response", exception |-> e, default_message |-> m,
           handling |-> h] :
            e \in Exceptions, m \in {"An error occurred", "Database error occurred"},
            h \in {None} \cup {Some(x) : x \in Exceptions}}

\* the users table as a call of suggest_assignee may find it
Staff == << User("u1", "root", "admin", None, TRUE),
            User("u2", "pm", "employee", Some("Finance"), TRUE),
            User("u3", "clerk", "employee", None, TRUE),
            User("u4", "gone", "admin", Some("Finance"), FALSE),
            User("u5", "cfo", "admin", Some("Finance"), TRUE),
            User("u6", "ops", "admin", None, TRUE),
            User("u7", "audit", "department_head", Some("Audit"), TRUE),
            User("u8", "dba", "admin", None, TRUE) >>
RECURSIVE Picked(_, _)
Picked(users, ids) ==
    IF users = <<>> THEN <<>>
    ELSE (IF Head(users).id \in ids THEN <<Head(users)>> ELSE <<>>) \o Picked(Tail(users), ids)
UserTables == {Picked(Staff, ids) : ids \in SUBSET {Staff[i].id : i \in 1..Len(Staff)}}

Decompose ==
    /\ call.op = "decompose_task" /\ pc = "start"
    /\ result' = Returned(decompose_task(call.task_title, call.task_description))
    /\ pc' = "done"
    /\ UNCHANGED <<call, wf>> /\ StoreUnchanged

SuggestAssignee ==
    /\ call.op = "suggest_assignee" /\ pc = "start"
    /\ result' = Returned(suggest_assignee(call.task_title, call.task_description,
                                           call.project_id, db_users, db_projects))
    /\ pc' = "done"
    /\ UNCHANGED <<call, wf>> /\ StoreUnchanged

AnalyzeTaskComplexity ==
    /\ call.op = "analyze_task_complexity" /\ pc = "start"
    /\ result' = Returned(analyze_task_complexity(call.title, call.description))
    /\ pc' = "done"
    /\ UNCHANGED <<call, wf>> /\ StoreUnchanged

\* the caller analyses the same text again with a high-complexity keyword
\* written into one of its words, which leaves the number of words as it was
AddHighKeyword ==
    /\ call.op = "analyze_task_complexity" /\ pc = "done"
    /\ \E i \in (1..Len(call.words)) \ call.added, k \in 1..Len(COMPLEXITY_HIGH) :
          /\ call' = TextCall([call.words EXCEPT ![i] = @ \o COMPLEXITY_HIGH[k]],
                              call.padding, call.added \cup {i})
          /\ result' = Returned(analyze_task_complexity(call'.title, call'.description))
    /\ UNCHANGED <<pc, wf>> /\ StoreUnchanged

SafeErrorResponse ==
    /\ call.op = "safe_error_response" /\ pc = "start"
    /\ LET r == safe_error_response(call.exception, call.default_message, call.handling)
       IN result' = Logged(Returned(r.result), r.log)
    /\ pc' = "done"
    /\ UNCHANGED <<call, wf>> /\ StoreUnchanged

InitEngine ==
    /\ call \in EngineCalls
    /\ pc = "start" /\ result = NoResult /\ wf = NoWorkflow
    /\ db_tasks = EmptyStore /\ db_projects = TheProjects
    /\ db_users \in IF call.op = "suggest_assignee" THEN UserTables ELSE {TheUsers}
    /\ db_time_entries = <<>> /\ served = 0
    /\ session = CleanSession /\ next_id = 1 /\ fk_enforced = FALSE

NextEngine ==
    \/ Decompose
    \/ SuggestAssignee
    \/ AnalyzeTaskComplexity
    \/ AddHighKeyword
    \/ SafeErrorResponse

SpecEngine == InitEngine /\ [][NextEngine]_vars

\* C15: decompose_task depends only on the title.  A title containing
\* implement/create/build/develop gives exactly the 4 subtasks Design,
\* Implement, Tests, Docs with 4, 16, 6, 2 hours (28 in total); otherwise a
\* title containing fix/bug/issue gives exactly the 3 subtasks Investigate,
\* Fix, Test with 2, 4, 2 hours (8 in total); otherwise the list is empty; a
\* title matching both rules gets the build decomposition.
C15_DecomposeByTitle ==
    (call.op = "decompose_task" /\ pc = "done") =>
        LET t == call.task_title
            has(ws) == \E w \in ws : Contains(w, lower(t))
            build == has({"implement", "create", "build", "develop"})
            repair == has({"fix", "bug", "issue"})
            r == result.value
            titles == [i \in 1..Len(r) |-> r[i].title]
            hours == [i \in 1..Len(r) |-> r[i].estimated_hours]
        IN /\ result.kind = "return"
           /\ build => /\ titles = <<"Design and plan: " \o t,
                                     "Implement core functionality: " \o t,
                                     "Write tests: " \o t, "Documentation: " \o t>>
                       /\ hours = <<4, 16, 6, 2>>
                       /\ sum_hours([i \in 1..Len(r) |-> [h |-> Some(r[i].estimated_hours)]],
                                    "h") = 28
           /\ (~build /\ repair)
                   => /\ titles = <<"Investigate: " \o t, "Fix: " \o t, "Test: " \o t>>
                      /\ hours = <<2, 4, 2>>
                      /\ sum_hours([i \in 1..Len(r) |-> [h |-> Some(r[i].estimated_hours)]],
                                   "h") = 8
           /\ (~build /\ ~repair) => r = <<>>

C15_Witness ==
    /\ call.op = "decompose_task" /\ pc = "done"
    /\ call.task_title = "Build a fix for the bug"
    /\ Len(result.value) = 4 /\ result.value[1].title = "Design and plan: Build a fix for the bug"

\* C16: for every users table and every input, suggest_assignee returns at
\* most 5 suggestions, in order of non-increasing score, equal scores in the
\* order of the users query, and every score s has 0 < s <= 1.0.
C16_TopFiveSorted ==
    (call.op = "suggest_assignee" /\ pc = "done") =>
        LET r == result.value.suggestions
            pos(id) == CHOOSE k \in 1..Len(db_users) : db_users[k].id = id
        IN /\ result.kind = "return"
           /\ Len(r) <= 5
           /\ \A i, j \in 1..Len(r) :
                i < j => /\ r[i].score >= r[j].score
                         /\ r[i].score = r[j].score => pos(r[i].user_id) < pos(r[j].user_id)
           /\ \A i \in 1..Len(r) : 0 < r[i].score /\ r[i].score <= 100

C16_Witness ==
    /\ call.op = "suggest_assignee" /\ pc = "done"
    /\ Len(SelectSeq(db_users, LAMBDA u : u.is_active)) > 5
    /\ Len(result.value.suggestions) = 5
    /\ result.value.suggestions[1].score = 100
    /\ result.value.suggestions[1].user_id = "u5"
    /\ result.value.suggestions[2].score = result.value.suggestions[3].score

\* C28: in analyze_task_complexity a low-complexity keyword overrides a
\* high-complexity one: every text that contains fix, bug, typo,
\* documentation or comment gets complexity_score <= 4 and priority low or
\* medium, also when it contains critical or migration as well.
C28_LowKeywordWins ==
    (/\ call.op = "analyze_task_complexity" /\ pc = "done"
     /\ AnyIn(COMPLEXITY_LOW, lower_long(call.title \o " " \o call.description)))
        => /\ result.value.complexity_score <= 4
           /\ result.value.suggested_priority \in {"low", "medium"}

C28_Witness ==
    /\ call.op = "analyze_task_complexity" /\ pc = "done"
    /\ Contains("fix", lower_long(call.title))
    /\ Contains("critical", call.title) \/ Contains("migration", call.title)
    /\ result.value.complexity_score = 4
    /\ result.value.suggested_priority = "medium"

\* C24: suggest_assignee called with a project id that names no Project
\* surfaces NotFound (it raises, or returns an error object) and does not
\* return suggestions as if no project had been given.
C24_MissingProjectSurfaced ==
    (/\ call.op = "suggest_assignee" /\ pc = "done"
     /\ call.project_id.some /\ call.project_id.v \notin DOMAIN db_projects)
        => \/ result.kind = "raise"
           \/ "error" \in DOMAIN result.value

\* the text of a log record as a handler writes it: message, then traceback
record_text(rec) == rec.msg \o "\n" \o rec.exc_text

\* C25: each call of safe_error_response(exception, message) writes exactly
\* one log record, of level error, whose text contains the type name of the
\* exception and the message text of the exception.
C25_LogsTypeAndMessage ==
    (call.op = "safe_error_response" /\ pc = "done") =>
        /\ Len(result.log) = 1
        /\ result.log[1].level = "error"
        /\ Contains(call.exception.type, record_text(result.log[1]))
        /\ Contains(call.exception.message, record_text(result.log[1]))

\* rank of a suggested priority: Low < Medium < High < Urgent
priority_rank(p) == CASE p = "low" -> 1 [] p = "medium" -> 2 [] p = "high" -> 3 [] p = "urgent" -> 4

\* C17: adding high-complexity keywords (architecture, refactor, migration,
\* integration, critical) to a text while its word count stays the same never
\* lowers the priority analyze_task_complexity suggests.
C17_HighKeywordNeverLowers ==
    [][(call.op = "analyze_task_complexity" /\ pc = "done" /\ pc' = "done")
          => /\ split_len(call'.title \o " " \o call'.description)
                  = split_len(call.title \o " " \o call.description)
             /\ priority_rank(result'.value.suggested_priority)
                  >= priority_rank(result.value.suggested_priority)]_vars

C17_Witness ==
    /\ call.op = "analyze_task_complexity" /\ pc = "done"
    /\ call.added # {} /\ call.padding = 99
    /\ call.title = "plancritical Update"
    /\ result.value.suggested_priority = "urgent" /\ result.value.complexity_score = 9


----------------------------------------------------------------------------
(* The project board: the task routes serve a bounded number of requests *)

MaxRequests == 2

TaskIds == 1..2
CreatePayloads ==
    { [title |-> "Fix crash"],
      [title |-> "Fix crash", status |-> "completed"],
      [title |-> "Fix crash", status |-> "done"],
      [title |-> "Fix crash", assigned_to |-> "u3", due_date |-> "2024-05-01"],
      [description |-> "no title"] }
UpdatePayloads ==
    { [status |-> "completed"], [status |-> "todo"], [status |-> "done"],
      [actual_hours |-> 3], [actual_hours |-> 0 - 1], [assigned_to |-> "u9"],
      [parent_task_id |-> 1] }
\* A client can name as parent a task it has seen, or an id that names no
\* task (0); it cannot name the uuid4 of a task yet to be created.
ChildPayloads ==
    { [title |-> "Fix crash", parent_task_id |-> id] : id \in DOMAIN db_tasks \cup {0} }
TimePayloads ==
    { [hours |-> 2, date |-> "2024-06-01"], [hours |-> 0 - 3, date |-> "2024-06-01"],
      [hours |-> 2, date |-> "June 1st"], [date |-> "2024-06-01"] }
AssignPayloads == { [task_id |-> 1], [force |-> TRUE] }
DecomposePayloads ==
    { [task_id |-> 1, create_subtasks |-> TRUE],
      [task_id |-> 1],
      [title |-> "Update README", project_id |-> "p9", create_subtasks |-> TRUE],
      [title |-> "Update README"] }

Counted == served < MaxRequests /\ served' = served + 1

CreateTask ==
    \E user \in SessionUsers, project_id \in RequestedProjects,
       payload \in CreatePayloads \cup ChildPayloads, db_ok \in BOOLEAN :
        LET data == [project_id |-> project_id] @@ payload
            r == create_task(db_tasks, next_id, user, data, db_ok)
        IN /\ Idle /\ Room(1) /\ Counted
           /\ call' = [op |-> "create_task", user |-> user.id, data |-> data, db_ok |-> db_ok]
           /\ Store(r.D) /\ result' = r.result
           /\ UNCHANGED session /\ NoTimeLogged /\ Served

UpdateTask ==
    \E user \in SessionUsers, task_id \in TaskIds, data \in UpdatePayloads, db_ok \in BOOLEAN :
        LET r == update_task(db_tasks, next_id, user, task_id, data, db_ok)
        IN /\ Idle /\ Counted
           /\ call' = [op |-> "update_task", user |-> user.id, task_id |-> task_id,
                       data |-> data, db_ok |-> db_ok]
           /\ Store(r.D) /\ result' = r.result
           /\ UNCHANGED session /\ NoTimeLogged /\ Served

LogTime ==
    \E user \in SessionUsers, task_id \in TaskIds, data \in TimePayloads, db_ok \in BOOLEAN :
        LET r == log_time(db_tasks, db_time_entries, next_id, user, task_id, data, db_ok)
        IN /\ Idle /\ Counted
           /\ call' = [op |-> "log_time", user |-> user.id, task_id |-> task_id,
                       data |-> data, db_ok |-> db_ok]
           /\ Store(r.D) /\ db_time_entries' = r.entries /\ result' = r.result
           /\ UNCHANGED session /\ Served

AutoAssignTask ==
    \E user \in SessionUsers, data \in AssignPayloads, db_ok \in BOOLEAN :
        LET r == auto_assign_task(db_tasks, next_id, user, data, db_ok)
        IN /\ Idle /\ Counted
           /\ call' = [op |-> "auto_assign_task", user |-> user.id, data |-> data,
                       db_ok |-> db_ok]
           /\ Store(r.D) /\ result' = r.result
           /\ UNCHANGED session /\ NoTimeLogged /\ Served

DecomposeTask ==
    \E user \in SessionUsers, data \in DecomposePayloads, fail_at \in 0..2 :
        LET r == decompose_task_route(db_tasks, next_id, user, data, fail_at)
        IN /\ Idle /\ Room(3) /\ Counted
           /\ call' = [op |-> "decompose_task", user |-> user.id, data |-> data,
                       fail_at |-> fail_at]
           /\ Store(r.D) /\ result' = r.result
           /\ UNCHANGED session /\ NoTimeLogged /\ Served

BoardCreateFeatureRoute == Counted /\ CreateFeatureRoute
BoardCreateFeatureTasks == Counted /\ CreateFeatureTasks
BoardCreateTaskFromGithubIssue == Counted /\ CreateTaskFromGithubIssue

InitBoard == InitStore

NextBoard ==
    \/ BoardCreateFeatureRoute
    \/ BoardCreateFeatureTasks
    \/ BoardCreateTaskFromGithubIssue
    \/ CreateTask
    \/ UpdateTask
    \/ LogTime
    \/ AutoAssignTask
    \/ DecomposeTask
    \/ NextRequest

SpecBoard == InitBoard /\ [][NextBoard]_vars

\* C4: a task carries a completed_date exactly when its status is Completed.
C4_CompletedDateIffCompleted ==
    \A id \in DOMAIN db_tasks :
        db_tasks[id].completed_date.some <=> db_tasks[id].status = "completed"

\* C5: in every reachable state of the task store, whatever values log_time
\* and update_task were called with, every task has actual_hours >= 0.
C5_ActualHoursNonNegative ==
    \A id \in DOMAIN db_tasks :
        db_tasks[id].actual_hours.some => db_tasks[id].actual_hours.v >= 0

\* the tasks reached from task id by following parent_task_id at most n times
RECURSIVE ancestors(_, _)
ancestors(id, n) ==
    IF n = 0 \/ id \notin DOMAIN db_tasks \/ ~db_tasks[id].parent_task_id.some THEN {}
    ELSE {db_tasks[id].parent_task_id.v} \cup ancestors(db_tasks[id].parent_task_id.v, n - 1)

\* C23: after any sequence of task creation, update and subtask creation the
\* parent_task_id relation is acyclic (no task is its own ancestor) and a
\* task has at most one parent.
C23_ParentsFormForest ==
    \A id \in DOMAIN db_tasks :
        /\ id \notin ancestors(id, Cardinality(DOMAIN db_tasks))
        /\ Cardinality({p \in DOMAIN db_tasks \cup {0} :
                            db_tasks[id].parent_task_id = Some(p)}) <= 1

C23_Witness ==
    /\ call.op = "decompose_task" /\ pc = "done"
    /\ result.value.status = 200 /\ Get(result.value.json, "success", FALSE)
    /\ \E a, b \in DOMAIN db_tasks : a # b /\ db_tasks[a].parent_task_id = Some(b)

\* C20: when the store write of a task-board operation fails (auto-assign,
\* subtask creation from a decomposition), the message returned to the
\* caller is a generic string, the same for every underlying exception: it
\* does not include the exception's text.
C20_GenericErrorMessage ==
    (/\ call.op \in {"auto_assign_task", "decompose_task"} /\ pc = "done"
     /\ result.value.status = 500)
        => \A text \in {"IntegrityError", "OperationalError", "PendingRollbackError"} :
                ~Contains(text, result.value.json.error)

----------------------------------------------------------------------------
(* Every operation of the engine: an analysis operation from each of its   *)
(* starting stores, or a run of the operations that write                  *)

InitOps == InitAgent \/ InitEngine \/ InitProgress \/ InitStore
NextOps ==
    \/ NextAgent
    \/ NextEngine
    \/ NextProgress
    \/ /\ call.op \in {"none", "create_feature_tasks_route", "create_feature_tasks",
                        "create_task_from_github_issue"}
       /\ NextStore
SpecOps == InitOps /\ [][NextOps]_vars

\* C21: analyze_task_complexity, suggest_assignee, decompose_task,
\* track_build_progress, get_build_status, analyze_issue_for_automation,
\* generate_fix_code, create_pr_strategy, should_auto_merge_pr and
\* execute_autonomous_workflow leave the Task, Project and User store
\* unchanged, and no engine operation ever deletes a Task, Project or User.
C21_AnalysisStep ==
    /\ call'.op \in {"analyze_task_complexity", "suggest_assignee", "decompose_task",
                     "track_build_progress", "get_build_status", "generate_fix_code",
                     "create_pr_strategy", "should_auto_merge_pr",
                     "execute_autonomous_workflow"}
          => /\ UNCHANGED <<db_tasks, db_projects, db_users>>
             /\ session'.new = <<>>
    /\ \A id \in DOMAIN db_tasks : id \in DOMAIN db_tasks'
    /\ \A id \in DOMAIN db_projects : id \in DOMAIN db_projects'
    /\ \A i \in DOMAIN db_users : \E j \in DOMAIN db_users' : db_users'[j].id = db_users[i].id
C21_AnalysisLeavesStore == [][C21_AnalysisStep]_vars

C21_Witness ==
    /\ call.op = "get_build_status" /\ pc = "done"
    /\ result.kind = "return"
    /\ Len(db_tasks) >= 3 /\ "p1" \in DOMAIN db_projects

----------------------------------------------------------------------------
(* Concurrent callers of the engine on project p1.  db.session is a scoped *)
(* session: every caller (thread, request) has a session and a transaction *)
(* of its own, and reads the committed rows and its own.  Here call, pc,   *)
(* session and result are functions of the caller.                         *)

Callers == {"t1", "t2", "t3", "t4"}

\* variant: the row is committed as soon as it is flushed
feature_flush_committed(D, project_id, subtasks, i, db_ok) ==
    LET flushed == session_add_flush(D, Task(project_id, subtasks[i].title,
                                             Some(subtasks[i].description),
                                             subtasks[i].priority, "todo",
                                             Some(subtasks[i].estimated_hours)), db_ok)
    IN IF flushed.exc.some THEN flushed ELSE session_commit(flushed.D, TRUE)

\* one iteration of the loop of create_feature_tasks: Task(...) of subtask
\* i, session.add, session.flush
feature_flush(D, project_id, subtasks, i, db_ok) ==
    session_add_flush(D, Task(project_id, subtasks[i].title, Some(subtasks[i].description),
                              subtasks[i].priority, "todo",
                              Some(subtasks[i].estimated_hours)), db_ok)

\* the ids in created_task_ids after the loop
created_task_ids(new) == [i \in 1..Len(new) |-> new[i].id]

\* The database and the session of caller t after a step.  Primary keys are
\* uuid4 strings: a key handed out is never handed out again, also when the
\* transaction it was used in is rolled back.
Publish(t, D) ==
    /\ db_tasks' = D.tasks
    /\ next_id' = Max(next_id, D.next_id)
    /\ session' = [session EXCEPT ![t] = [active |-> D.active, new |-> D.new]]

Finish(t, r) ==
    /\ pc' = [pc EXCEPT ![t] = "done"]
    /\ result' = [result EXCEPT ![t] = r]

SharedUnchanged ==
    UNCHANGED <<call, wf, db_projects, db_users, db_time_entries, fk_enforced, served>>

FlushSubtask(t) ==
    /\ call[t].op = "create_feature_tasks" /\ pc[t] = "loop"
    /\ LET subtasks == decompose_task(call[t].feature_name, "")
           i == Len(session[t].new) + 1
       IN \E db_ok \in BOOLEAN :
            LET r == feature_flush(OpenSession(db_tasks, session[t], next_id),
                                   call[t].project_id, subtasks, i, db_ok)
            IN /\ Publish(t, r.D)
               /\ IF r.exc.some THEN Finish(t, Raised(r.exc.v))
                  ELSE /\ pc' = [pc EXCEPT ![t] = IF i = Len(subtasks) THEN "commit"
                                                  ELSE "loop"]
                       /\ UNCHANGED result
    /\ SharedUnchanged

CommitSubtasks(t) ==
    /\ call[t].op = "create_feature_tasks" /\ pc[t] = "commit"
    /\ \E db_ok \in BOOLEAN :
        LET r == session_commit(OpenSession(db_tasks, session[t], next_id), db_ok)
        IN /\ Publish(t, r.D)
           /\ Finish(t, IF r.exc.some THEN Raised(r.exc.v)
                        ELSE Returned(created_task_ids(session[t].new)))
    /\ SharedUnchanged

IngestConcurrently(t) ==
    /\ call[t].op = "create_task_from_github_issue" /\ pc[t] = "start"
    /\ \E fail \in {"none", "flush", "commit"} :
        LET r == create_task_from_github_issue(OpenSession(db_tasks, session[t], next_id),
                                               call[t].issue_data, call[t].project_id, fail)
        IN Publish(t, r.D) /\ Finish(t, r.result)
    /\ SharedUnchanged

\* a progress query; the caller may ask again
QueryProgress(t) ==
    /\ call[t].op = "track_build_progress" /\ pc[t] \in {"start", "done"}
    /\ Finish(t, track_build_progress(call[t].project_id, db_projects,
                                      with_rows(db_tasks, session[t].new)))
    /\ UNCHANGED <<db_tasks, next_id, session>>
    /\ SharedUnchanged

InitConcurrent ==
    /\ \E issue \in {i \in IngestedIssues : i.number = 8} :
        call = [t \in Callers |->
                 CASE t = "t1" -> [op |-> "create_feature_tasks", project_id |-> "p1",
                                   feature_name |-> "Build login"]
                   [] t = "t2" -> [op |-> "create_feature_tasks", project_id |-> "p1",
                                   feature_name |-> "Fix crash"]
                   [] t = "t3" -> [op |-> "create_task_from_github_issue",
                                   project_id |-> "p1", issue_data |-> issue]
                   [] OTHER -> [op |-> "track_build_progress", project_id |-> "p1"]]
    /\ pc = [t \in Callers |-> IF t \in {"t1", "t2"} THEN "loop" ELSE "start"]
    /\ result = [t \in Callers |-> NoResult]
    /\ session = [t \in Callers |-> CleanSession]
    /\ wf = NoWorkflow
    /\ db_tasks = EmptyStore /\ next_id = 1
    /\ db_projects = TheProjects /\ db_users = TheUsers
    /\ db_time_entries = <<>> /\ served = 0
    /\ fk_enforced \in BOOLEAN

NextConcurrent ==
    \E t \in Callers :
        \/ FlushSubtask(t)
        \/ CommitSubtasks(t)
        \/ IngestConcurrently(t)
        \/ QueryProgress(t)

SpecConcurrent == InitConcurrent /\ [][NextConcurrent]_vars

\* the committed subtasks of the call of caller t, and of that call among
\* the rows a query of caller q reads
subtask_titles(t) ==
    LET subtasks == decompose_task(call[t].feature_name, "")
    IN {subtasks[i].title : i \in 1..Len(subtasks)}
committed_of(t) == {id \in DOMAIN db_tasks : db_tasks[id].title \in subtask_titles(t)}

C22_StoreHoldsNoneOrAll ==
    \A t \in {"t1", "t2"} :
        LET have == committed_of(t)
        IN /\ Cardinality(have) \in {0, Cardinality(subtask_titles(t))}
           /\ result[t].kind = "return"
                <=> /\ have # {}
                    /\ have = {result[t].value[i] : i \in DOMAIN result[t].value}
           /\ have # {} => {db_tasks[id].title : id \in have} = subtask_titles(t)

C22_QueryStep ==
    \A q \in Callers :
        (call[q].op = "track_build_progress" /\ result'[q] # result[q])
            => /\ result'[q].kind = "return"
               /\ result'[q].value.total_tasks = Cardinality(DOMAIN db_tasks)
               /\ \A t \in {"t1", "t2"} :
                    Cardinality(committed_of(t)) \in {0, Cardinality(subtask_titles(t))}

\* C22: in every interleaving of concurrent create_feature_tasks calls, an
\* issue ingestion and progress queries on one project, without any lock,
\* the committed store holds none or all of the subtasks of each
\* create_feature_tasks call, all of them exactly when the call returned (so
\* two calls that both succeed each contribute their full set), and a
\* progress query counts the committed rows, never a strict subset of one
\* call's subtasks.
C22_ConcurrentCallsAtomic == [](C22_StoreHoldsNoneOrAll) /\ [][C22_QueryStep]_vars

C22_Witness ==
    /\ result["t1"].kind = "return" /\ result["t2"].kind = "return"
    /\ result["t3"].kind = "return" /\ result["t3"].value.some
    /\ result["t4"].kind = "return" /\ result["t4"].value.total_tasks = 4
    /\ Cardinality(DOMAIN db_tasks) = 8
    /\ \E i \in committed_of("t1"), j \in committed_of("t2") : j < i
====
